---- MODULE Spec2Model ----
(***************************************************************************)
(* GraphEngine: the language-model gateway (LLMProvider) and the decision  *)
(* extractor (DecisionExtractor) as one state machine.                     *)
(*                                                                         *)
(* Texts are sequences of word tokens; numbers that the source keeps as    *)
(* decimal fractions (weights, confidences) are kept in tenths.            *)
(***************************************************************************)
EXTENDS Integers, Sequences, FiniteSets, TLC

VARIABLES
    providers,        \* LLMProvider._providers, in priority order
    normalized,       \* table normalized_events
    decisions,        \* table decisions
    pc,               \* where the running operation is suspended
    caller,           \* who awaits completeJSON: "extractor" or "direct"
    candidates,       \* extractDecisions: the candidate rows
    i,                \* extractDecisions: index of the candidate in hand
    extracted,        \* extractDecisions: counter
    skipped,          \* extractDecisions: counter
    pending,          \* the Decision handed to storeDecision
    pIdx,             \* complete: index of the provider being awaited
    lastError,        \* complete: lastError
    invoked,          \* per complete call of this completeJSON: providers called
    completeResult,   \* what the latest complete call returned or threw
    jsonResult,       \* what the latest completeJSON call returned or threw
    outcomes,         \* per processed candidate: how it was routed and what came out
    events,           \* table events (the raw events)
    storeResult,      \* what the latest store or storeBatch call returned or threw
    explanation,      \* what the latest explainComponent call returned or threw
    scorerInput,      \* detectDecisionIndicators: the content it is given
    scorerOutput,     \* detectDecisionIndicators: what it returned for that content
    parked            \* extractDecisions: the locals of a second run, while it is suspended

vars == <<providers, normalized, decisions, pc, caller, candidates, i, extracted,
          skipped, pending, pIdx, lastError, invoked, completeResult, jsonResult,
          outcomes, events, storeResult, explanation, scorerInput, scorerOutput, parked>>

\* ------------------------------------------------------------------ bounds

MaxEvents == 2

\* the longest content the scorer is given word by word
MaxLen == 4

\* ------------------------------------------------------------------ text

\* the number that is not a number; it is no count of tenths
NaN == -1000

Last(s) == s[Len(s)]
Front(s) == SubSeq(s, 1, Len(s) - 1)

\* String.prototype.toLowerCase on one word of the vocabulary
toLowerCase(w) ==
    CASE w = "Approved" -> "approved"
      [] w = "Rate" -> "rate"
      [] w = "Limit" -> "limit"
      [] w = "We" -> "we"
      [] w = "PostgreSQL" -> "postgresql"
      [] w = "Switch" -> "switch"
      [] w = "JSON" -> "json"
      [] w = "This" -> "this"
      [] OTHER -> w

\* a phrase (lower-case words) occurs in the lower-cased text
ContainsPhrase(text, phrase) ==
    \E s \in 1..(Len(text) - Len(phrase) + 1) :
        \A j \in 1..Len(phrase) : toLowerCase(text[s + j - 1]) = phrase[j]

\* ------------------------------------------------------------------ errors

NoError == [name |-> "undefined", status |-> 0, message |-> <<>>, from |-> "nobody"]

\* new Error('No LLM provider configured')
ConfigError ==
    [name |-> "Error", status |-> 0,
     message |-> <<"No", "LLM", "provider", "configured">>, from |-> "LLMProvider"]

\* what JSON.parse throws
SyntaxError ==
    [name |-> "SyntaxError", status |-> 0,
     message |-> <<"Unexpected", "token">>, from |-> "JSON.parse"]

\* what a back end's SDK can throw (status 0: the error carries no status)
ProviderFailures ==
    { [name |-> "APIError", status |-> 429, message |-> <<"too", "many", "requests">>],
      [name |-> "APIError", status |-> 401, message |-> <<"unauthorized">>],
      [name |-> "APIError", status |-> 400, message |-> <<"bad", "request">>],
      [name |-> "APIError", status |-> 403, message |-> <<"invalid", "api", "key">>],
      [name |-> "Error", status |-> 0, message |-> <<"Rate", "Limit", "reached">>],
      [name |-> "Error", status |-> 0, message |-> <<"quota", "exceeded">>],
      [name |-> "APIError", status |-> 500, message |-> <<"internal", "server", "error">>],
      [name |-> "Error", status |-> 0, message |-> <<"socket", "hang", "up">>],
      [name |-> "TypeError", status |-> 0, message |-> <<"cannot", "read", "null">>] }

ErrorFrom(f, p) ==
    [name |-> f.name, status |-> f.status, message |-> f.message, from |-> p]

\* /quota|rate.?limit|credit balance|insufficient|incorrect api key|invalid.*key/i
QuotaMessage(msg) ==
    \/ ContainsPhrase(msg, <<"quota">>)
    \/ ContainsPhrase(msg, <<"rate", "limit">>)
    \/ ContainsPhrase(msg, <<"ratelimit">>)
    \/ ContainsPhrase(msg, <<"credit", "balance">>)
    \/ ContainsPhrase(msg, <<"insufficient">>)
    \/ ContainsPhrase(msg, <<"incorrect", "api", "key">>)
    \/ \E a \in 1..Len(msg) : \E b \in (a + 1)..Len(msg) :
          toLowerCase(msg[a]) = "invalid" /\ toLowerCase(msg[b]) = "key"

\* mutant: 429 is not in the status list
isQuotaErrorNo429(err) ==
    IF err = NoError THEN FALSE
    ELSE \/ err.status \in {401, 400}
         \/ QuotaMessage(err.message)

\* mutant: every error means "try the next provider"
isQuotaErrorAny(err) == err # NoError

isQuotaError(err) ==
    IF err = NoError THEN FALSE
    ELSE \/ err.status \in {401, 429, 400}
         \/ QuotaMessage(err.message)

\* ------------------------------------------------------------------ completions

Fence == [k |-> "fence"]     \* three backquotes
NL == [k |-> "newline"]
Prose == [k |-> "prose"]
Lang(w) == [k |-> "word", w |-> w]
Json(v) == [k |-> "json", v |-> v]

JNull == [type |-> "null", fields |-> <<>>]
JObject(f) == [type |-> "object", fields |-> f]

ObjFull ==
    JObject([is_decision |-> TRUE, decision_statement |-> <<"Chose", "redis">>,
             rationale |-> <<"speed">>, decision_type |-> "architectural",
             scope |-> "system", reversibility |-> "costly",
             decision_confidence |-> "high", extraction_confidence |-> 9])
ObjSparse == JObject([is_decision |-> TRUE, extraction_confidence |-> 15])
ObjNo == JObject([is_decision |-> FALSE])
\* labels that are none of the prompt's, and a confidence below zero
ObjOdd ==
    JObject([is_decision |-> TRUE, decision_statement |-> <<"Chose", "redis">>,
             decision_type |-> "bugfix", scope |-> "team", reversibility |-> "unknown",
             decision_confidence |-> "very high", extraction_confidence |-> -3])
\* a confidence that is no number ("high"); Math.max makes NaN of it
ObjVague ==
    JObject([is_decision |-> TRUE, decision_statement |-> <<"Chose", "redis">>,
             extraction_confidence |-> NaN])

\* the trimmed message text a back end can answer with
Completions ==
    { <<Json(ObjFull)>>,
      <<Fence, Lang("JSON"), NL, Json(ObjSparse), NL, Fence>>,
      <<Json(ObjNo)>>,
      <<Json(JNull)>>,
      <<Prose, Json(ObjFull)>>,
      <<Fence, NL, Prose, NL, Fence>> }

\* answers whose fields are not what the prompt asks for
OddCompletions == { <<Json(ObjOdd)>>, <<Json(ObjVague)>> }

RECURSIVE trim(_)
trim(t) ==
    IF t = <<>> THEN t
    ELSE IF Head(t) = NL THEN trim(Tail(t))
    ELSE IF Last(t) = NL THEN trim(Front(t))
    ELSE t

\* raw.replace(/^FENCE(?:json)?\n?/i, '').replace(/\n?FENCE$/, '').trim()
StripOpen(t) ==
    IF t # <<>> /\ Head(t) = Fence
    THEN LET a == Tail(t)
             b == IF a # <<>> /\ Head(a).k = "word" /\ toLowerCase(Head(a).w) = "json"
                  THEN Tail(a) ELSE a
         IN  IF b # <<>> /\ Head(b) = NL THEN Tail(b) ELSE b
    ELSE t

StripClose(t) ==
    IF t # <<>> /\ Last(t) = Fence
    THEN LET a == Front(t)
         IN  IF a # <<>> /\ Last(a) = NL THEN Front(a) ELSE a
    ELSE t

cleaned(raw) == trim(StripClose(StripOpen(raw)))

\* JSON.parse: a value, or a SyntaxError
Parses(t) == Len(t) = 1 /\ t[1].k = "json"
JSONparse(t) == t[1].v

\* what a call returned or threw; from: the back end whose answer it is
Returned(v, p) == [kind |-> "value", value |-> v, error |-> NoError, from |-> p]
Threw(e) == [kind |-> "error", value |-> <<>>, error |-> e, from |-> e.from]
Nothing == [kind |-> "none", value |-> <<>>, error |-> NoError, from |-> "nobody"]

\* ------------------------------------------------------------------ LLMProvider

Credentials == {"GROQ_API_KEY", "OPENAI_API_KEY", "ANTHROPIC_API_KEY"}

\* constructor: the providers whose key is present, Groq > OpenAI > Anthropic
LLMProvider(env) ==
    (IF "GROQ_API_KEY" \in env THEN <<"Groq">> ELSE <<>>)
    \o (IF "OPENAI_API_KEY" \in env THEN <<"OpenAI">> ELSE <<>>)
    \o (IF "ANTHROPIC_API_KEY" \in env THEN <<"Anthropic">> ELSE <<>>)

\* mutant: an empty provider list counts as available
isAvailableEmpty == Len(providers) >= 0

isAvailable == Len(providers) > 0

\* ------------------------------------------------------------------ scorer

\* a row column that is NULL is a key the record does not have
Has(r, key) == key \in DOMAIN r
TextOf(r, key) == IF Has(r, key) THEN r[key] ELSE <<>>      \* r.key || ''

PhraseAt(text, s, phrase) ==
    /\ s + Len(phrase) - 1 <= Len(text)
    /\ \A j \in 1..Len(phrase) : toLowerCase(text[s + j - 1]) = phrase[j]

\* text.match(/\b(a|b|...)\b/g): the matches, left to right, not overlapping
RECURSIVE match(_, _, _)
match(text, s, alts) ==
    IF s > Len(text) THEN <<>>
    ELSE LET hit == {a \in 1..Len(alts) : PhraseAt(text, s, alts[a])}
         IN  IF hit = {} THEN match(text, s + 1, alts)
             ELSE LET a == CHOOSE a \in hit : \A b \in hit : a <= b
                  IN  <<alts[a]>> \o match(text, s + Len(alts[a]), alts)

decisionPatterns ==
    << [pattern |-> << <<"decide">>, <<"decided">>, <<"decision">>, <<"choose">>,
                       <<"chose">>, <<"select">>, <<"selected">> >>,
        weight |-> 8, type |-> "explicit_decision"],
       [pattern |-> << <<"approve">>, <<"approved">>, <<"reject">>, <<"rejected">>,
                       <<"accept">>, <<"accepted">> >>,
        weight |-> 7, type |-> "approval_decision"],
       [pattern |-> << <<"let's", "go", "with">>, <<"let's", "use">>,
                       <<"let's", "implement">> >>,
        weight |-> 6, type |-> "implementation_decision"],
       [pattern |-> << <<"tradeoff">>, <<"trade-off">>, <<"pro", "and", "con">>,
                       <<"pros", "and", "con">>, <<"pro", "and", "cons">>,
                       <<"pros", "and", "cons">> >>,
        weight |-> 5, type |-> "tradeoff_analysis"],
       [pattern |-> << <<"because">>, <<"since">>, <<"due", "to">>, <<"reason">> >>,
        weight |-> 3, type |-> "rationale"],
       [pattern |-> << <<"however">>, <<"but">>, <<"although">>, <<"instead">> >>,
        weight |-> 2, type |-> "alternative_consideration"],
       [pattern |-> << <<"architecture">>, <<"design">>, <<"approach">>, <<"strategy">> >>,
        weight |-> 4, type |-> "technical_decision"],
       [pattern |-> << <<"performance">>, <<"scalability">>, <<"maintainability">> >>,
        weight |-> 3, type |-> "quality_attribute"],
       [pattern |-> << <<"implement">>, <<"refactor">>, <<"migrate">>, <<"upgrade">> >>,
        weight |-> 3, type |-> "implementation_signal"],
       [pattern |-> << <<"fix">>, <<"bug">>, <<"issue">>, <<"problem">> >>,
        weight |-> 2, type |-> "problem_solving"] >>

\* Math.min, Math.max
Min(a, b) == IF a = NaN \/ b = NaN THEN NaN ELSE IF a <= b THEN a ELSE b
Max(a, b) == IF a = NaN \/ b = NaN THEN NaN ELSE IF a >= b THEN a ELSE b

\* the loop with no cap on what a pattern adds
RECURSIVE scanUncapped(_, _, _, _)
scanUncapped(text, p, indicators, confidence) ==
    IF p > Len(decisionPatterns)
    THEN [indicators |-> indicators, confidence |-> Min(confidence, 10)]
    ELSE LET d == decisionPatterns[p]
             matches == match(text, 1, d.pattern)
         IN  IF matches = <<>> THEN scanUncapped(text, p + 1, indicators, confidence)
             ELSE scanUncapped(text, p + 1,
                       Append(indicators,
                              [type |-> d.type, count |-> Len(matches), weight |-> d.weight,
                               examples |-> SubSeq(matches, 1, Min(3, Len(matches)))]),
                       confidence + Len(matches) * d.weight)

\* the loop over decisionPatterns, from pattern p on, with the running total
RECURSIVE scan(_, _, _, _)
scan(text, p, indicators, confidence) ==
    IF p > Len(decisionPatterns)
    THEN [indicators |-> indicators, confidence |-> Min(confidence, 10)]
    ELSE LET d == decisionPatterns[p]
             matches == match(text, 1, d.pattern)
         IN  IF matches = <<>> THEN scan(text, p + 1, indicators, confidence)
             ELSE scan(text, p + 1,
                       Append(indicators,
                              [type |-> d.type, count |-> Len(matches), weight |-> d.weight,
                               examples |-> SubSeq(matches, 1, Min(3, Len(matches)))]),
                       confidence + Min(Len(matches) * d.weight, d.weight * 2))

detectDecisionIndicators(content) ==
    IF content = <<>> THEN [indicators |-> <<>>, confidence |-> 0]
    ELSE scan(content, 1, <<>>, 0)

\* ------------------------------------------------------------------ normalizer

\* message.split('\n')[0]
RECURSIVE firstLine(_)
firstLine(t) ==
    IF t = <<>> \/ Head(t) = "\n" THEN <<>> ELSE <<Head(t)>> \o firstLine(Tail(t))

Pick(r, key, as) == IF Has(r, key) THEN (as :> r[key]) ELSE <<>>

extractAuthor(rawEvent) ==
    IF rawEvent.type \in {"pull_request", "issue", "pr_comment", "pr_review"}
    THEN Pick(rawEvent.data, "author", "author_login")
         @@ Pick(rawEvent.data, "author", "author_name")
    ELSE IF rawEvent.type = "commit"
    THEN Pick(rawEvent.data, "author", "author_login")
         @@ Pick(rawEvent.data, "author", "author_name")
         @@ Pick(rawEvent.data, "author_email", "author_email")
    ELSE <<>>

extractContent(rawEvent) ==
    CASE rawEvent.type = "pull_request" ->
            Pick(rawEvent.data, "title", "title")
            @@ [content |-> TextOf(rawEvent.data, "body"), content_type |-> "pr_description"]
      [] rawEvent.type = "issue" ->
            Pick(rawEvent.data, "title", "title")
            @@ [content |-> TextOf(rawEvent.data, "body"), content_type |-> "issue_description"]
      [] rawEvent.type = "pr_comment" ->
            [content |-> TextOf(rawEvent.data, "body"), content_type |-> "comment"]
      [] rawEvent.type = "pr_review" ->
            [content |-> TextOf(rawEvent.data, "body"), content_type |-> "review"]
      [] rawEvent.type = "commit" ->
            [title |-> firstLine(rawEvent.data.message), content |-> rawEvent.data.message,
             content_type |-> "commit_message"]
      [] OTHER -> [content |-> <<>>, content_type |-> "unknown"]

extractEntities(rawEvent) ==
    CASE rawEvent.type = "pull_request" -> Pick(rawEvent.data, "number", "pull_request_number")
      [] rawEvent.type = "issue" -> Pick(rawEvent.data, "number", "issue_number")
      [] rawEvent.type \in {"pr_comment", "pr_review"} ->
            Pick(rawEvent.data, "pr_number", "pull_request_number")
      [] rawEvent.type = "commit" -> Pick(rawEvent.data, "sha", "commit_sha")
      [] OTHER -> <<>>

\* mutant: the id is drawn from a counter instead of the raw event's id
normalizeEventCounted(rawEvent) ==
    LET content == extractContent(rawEvent)
        decisionSignals == detectDecisionIndicators(content.content)
    IN  [id |-> <<"norm_", ToString(Cardinality(normalized))>>,
         original_event_id |-> rawEvent.id,
         timestamp |-> rawEvent.timestamp, event_type |-> rawEvent.type,
         repository |-> rawEvent.repository]
        @@ extractAuthor(rawEvent) @@ content @@ extractEntities(rawEvent)
        @@ [decision_indicators |-> decisionSignals.indicators,
            confidence_score |-> decisionSignals.confidence]

normalizeEvent(rawEvent) ==
    LET content == extractContent(rawEvent)
        decisionSignals == detectDecisionIndicators(content.content)
    IN  [id |-> <<"norm_", rawEvent.id>>, original_event_id |-> rawEvent.id,
         timestamp |-> rawEvent.timestamp, event_type |-> rawEvent.type,
         repository |-> rawEvent.repository]
        @@ extractAuthor(rawEvent) @@ content @@ extractEntities(rawEvent)
        @@ [decision_indicators |-> decisionSignals.indicators,
            confidence_score |-> decisionSignals.confidence]

\* the raw events a repository's history is drawn from
RawEventPool ==
    { [id |-> "e1", timestamp |-> 1, type |-> "pr_review", repository |-> "acme/api",
       action |-> "approved", source |-> "github",
       data |-> [author |-> "ann", pr_number |-> 7,
                 body |-> <<"approved", "because", "tests", "pass", ".">>]],
      [id |-> "e2", timestamp |-> 2, type |-> "pr_comment", repository |-> "acme/api",
       action |-> "created", source |-> "github",
       data |-> [author |-> "bob", pr_number |-> 7,
                 body |-> <<"i", "think", "we", "should", "refactor", "but", "probably",
                            "later">>]],
      [id |-> "e3", timestamp |-> 3, type |-> "commit", repository |-> "acme/api",
       action |-> "created", source |-> "github",
       data |-> [author |-> "ann", author_email |-> "ann@acme", sha |-> "abc",
                 message |-> <<"fix", "bug", "\n", "design", "problem">>]],
      [id |-> "e4", timestamp |-> 4, type |-> "pr_comment", repository |-> "acme/web",
       action |-> "created", source |-> "github",
       data |-> [author |-> "bob", pr_number |-> 8,
                 body |-> <<"nice", ".", "let's", "go", "with", "redis", "since", "fast",
                            "!">>]] }

\* ------------------------------------------------------------------ extractor: rule-based

lower(text) == [k \in 1..Len(text) |-> toLowerCase(text[k])]

\* String.prototype.includes, for a needle of whole words (no word of the
\* vocabulary holds a needle as a proper part)
includes(text, needle) ==
    \E s \in 1..(Len(text) - Len(needle) + 1) :
        \A j \in 1..Len(needle) : text[s + j - 1] = needle[j]

RECURSIVE trimText(_)
trimText(t) ==
    IF t = <<>> THEN t
    ELSE IF Head(t) = "\n" THEN trimText(Tail(t))
    ELSE IF Last(t) = "\n" THEN trimText(Front(t))
    ELSE t

Terminators == {".", "!", "?"}

\* [^.!?]+ from position s
RECURSIVE run(_, _)
run(text, s) ==
    IF s > Len(text) \/ text[s] \in Terminators THEN <<>>
    ELSE <<text[s]>> \o run(text, s + 1)

\* content.match(/cue ([^.!?]+)/i): the leftmost place one of the cues is followed
\* by text; match[1].trim()
firstCapture(content, cues) ==
    LET at == {s \in 1..Len(content) :
                  \E c \in 1..Len(cues) :
                      /\ PhraseAt(content, s, cues[c])
                      /\ run(content, s + Len(cues[c])) # <<>>}
    IN  IF at = {} THEN [found |-> FALSE, text |-> <<>>]
        ELSE LET s == CHOOSE x \in at : \A y \in at : x <= y
                 c == CHOOSE c \in 1..Len(cues) :
                          /\ PhraseAt(content, s, cues[c])
                          /\ run(content, s + Len(cues[c])) # <<>>
                          /\ \A b \in 1..(c - 1) :
                                ~(PhraseAt(content, s, cues[b])
                                  /\ run(content, s + Len(cues[b])) # <<>>)
             IN  [found |-> TRUE, text |-> trimText(run(content, s + Len(cues[c])))]

\* the patterns in order; the first pattern that matches anywhere wins
RECURSIVE firstPattern(_, _, _)
firstPattern(content, patterns, p) ==
    IF p > Len(patterns) THEN [found |-> FALSE, text |-> <<>>]
    ELSE LET m == firstCapture(content, patterns[p])
         IN  IF m.found THEN m ELSE firstPattern(content, patterns, p + 1)

rationalePatterns ==
    << << <<"because">> >>, << <<"since">> >>, << <<"due", "to">> >>,
       << <<"this", "will">>, <<"this", "should">> >> >>

problemPatterns ==
    << << <<"issue", "is">>, <<"issue", "was">>, <<"problem", "is">>, <<"problem", "was">>,
          <<"challenge", "is">>, <<"challenge", "was">> >>,
       << <<"we", "need", "to">>, <<"we", "want", "to">> >>,
       << <<"currently">>, <<"right", "now">> >> >>

extractRationale(content) == firstPattern(content, rationalePatterns, 1)
extractProblemStatement(content) == firstPattern(content, problemPatterns, 1)

decisionPhrases ==
    << <<"let's", "go", "with">>, <<"i", "think", "we", "should">>, <<"we", "should", "use">>,
       <<"i", "prefer">>, <<"better", "approach">>, <<"i", "suggest">>,
       <<"let's", "implement">>, <<"we", "need", "to">>, <<"i", "recommend">> >>

containsAnyLanguage(content) == content # <<>>

containsDecisionLanguage(content) ==
    \E p \in 1..Len(decisionPhrases) : includes(lower(content), decisionPhrases[p])

\* content.split(/[.!?]+/): the sentence that starts at s, and where the next starts
RECURSIVE sentences(_, _)
sentences(content, s) ==
    IF s > Len(content) THEN <<>>
    ELSE IF content[s] \in Terminators THEN sentences(content, s + 1)
    ELSE LET r == run(content, s) IN <<r>> \o sentences(content, s + Len(r))

extractDecisionStatement(content) ==
    LET ss == sentences(content, 1)
        hit == {k \in 1..Len(ss) : containsDecisionLanguage(trimText(lower(ss[k])))}
    IN  IF hit # {} THEN trimText(ss[CHOOSE k \in hit : \A m \in hit : k <= m])
        ELSE content \o <<"...">>

inferScope(content) ==
    LET lowerContent == lower(content)
    IN  IF includes(lowerContent, <<"architecture">>) \/ includes(lowerContent, <<"system">>)
        THEN "system"
        ELSE IF includes(lowerContent, <<"component">>) \/ includes(lowerContent, <<"module">>)
        THEN "component"
        ELSE "local"

\* mutant: the test for "database" / "schema" comes first
inferReversibilitySchemaFirst(content) ==
    LET lowerContent == lower(content)
    IN  IF includes(lowerContent, <<"database">>) \/ includes(lowerContent, <<"schema">>)
        THEN "irreversible"
        ELSE IF includes(lowerContent, <<"migration">>) \/ includes(lowerContent, <<"breaking">>)
        THEN "costly"
        ELSE "reversible"

inferReversibility(content) ==
    LET lowerContent == lower(content)
    IN  IF includes(lowerContent, <<"migration">>) \/ includes(lowerContent, <<"breaking">>)
        THEN "costly"
        ELSE IF includes(lowerContent, <<"database">>) \/ includes(lowerContent, <<"schema">>)
        THEN "irreversible"
        ELSE "reversible"

inferDecisionConfidence(content) ==
    LET lowerContent == lower(content)
    IN  IF includes(lowerContent, <<"definitely">>) \/ includes(lowerContent, <<"certain">>)
        THEN "high"
        ELSE IF includes(lowerContent, <<"probably">>) \/ includes(lowerContent, <<"likely">>)
        THEN "medium"
        ELSE "low"

NoDecision == [id |-> <<"null">>]          \* the extractor returned null
Maybe(m, key) == IF m.found THEN (key :> m.text) ELSE <<>>

\* the fields both paths copy from the event
FromEventStamped(event) ==
    [source_event_id |-> event.id, repository |-> event.repository,
     timestamp |-> event.timestamp + Cardinality(DOMAIN decisions)]
    @@ Pick(event, "author_login", "primary_decision_maker")
    @@ Pick(event, "pull_request_number", "related_pr_number")
    @@ Pick(event, "issue_number", "related_issue_number")
    @@ Pick(event, "commit_sha", "related_commit_sha")

FromEvent(event) ==
    [source_event_id |-> event.id, repository |-> event.repository,
     timestamp |-> event.timestamp]
    @@ Pick(event, "author_login", "primary_decision_maker")
    @@ Pick(event, "pull_request_number", "related_pr_number")
    @@ Pick(event, "issue_number", "related_issue_number")
    @@ Pick(event, "commit_sha", "related_commit_sha")

StrongTypesAndTradeoff ==
    {"explicit_decision", "approval_decision", "implementation_decision",
     "tradeoff_analysis"}

StrongTypes == {"explicit_decision", "approval_decision", "implementation_decision"}

\* mutant: the review type under another name
isApprovalOtherType(event, content) ==
    event.event_type = "pull_request_review" /\ includes(content, <<"approved">>)

\* event.event_type === 'pr_review' && content.includes('approved')
isApproval(event, content) ==
    event.event_type = "pr_review" /\ includes(content, <<"approved">>)

extractDecisionRuleBased(event) ==
    LET content == TextOf(event, "content")
        title == TextOf(event, "title")
        strongIndicators ==
            SelectSeq(event.decision_indicators, LAMBDA ind : ind.type \in StrongTypes)
        decision ==
            [id |-> <<"decision_", event.id>>,
             extraction_confidence |-> Min(event.confidence_score + 1, 10)]
            @@ FromEvent(event)
        confidence == [decision_confidence |-> inferDecisionConfidence(content)]
    IN  IF strongIndicators = <<>> /\ event.confidence_score < 6 THEN NoDecision
        ELSE IF isApproval(event, content)
        THEN decision @@ confidence
             @@ [decision_statement |->
                    <<"Approved", "implementation", "approach", "in", "PR", "#">>
                    \o (IF Has(event, "pull_request_number")
                        THEN <<ToString(event.pull_request_number)>> ELSE <<"null">>),
                 decision_type |-> "approval", scope |-> "component",
                 reversibility |-> "reversible"]
             @@ Maybe(extractRationale(content), "rationale")
        ELSE IF event.event_type = "pull_request"
        THEN decision @@ confidence
             @@ [decision_statement |-> <<"Implement:">> \o title,
                 decision_type |-> "technical", scope |-> inferScope(content),
                 reversibility |-> inferReversibility(content)]
             @@ Maybe(extractProblemStatement(content), "problem_statement")
             @@ Maybe(extractRationale(content), "rationale")
        ELSE IF event.event_type = "pr_comment"
        THEN IF containsDecisionLanguage(content)
             THEN decision @@ confidence
                  @@ [decision_statement |-> extractDecisionStatement(content),
                      decision_type |-> "technical", scope |-> "component",
                      reversibility |-> "reversible"]
                  @@ Maybe(extractRationale(content), "rationale")
             ELSE NoDecision
        ELSE IF event.event_type = "commit"
        THEN decision @@ confidence
             @@ [decision_statement |-> <<"Implement:">> \o title,
                 decision_type |-> "implementation", scope |-> "local",
                 reversibility |-> "reversible", implementation_notes |-> content]
        ELSE NoDecision

\* ------------------------------------------------------------------ extractor: LLM path

\* parsed.key || fallback: for a text (''), and for a label
OrNull(f, key) == IF Has(f, key) /\ f[key] # <<>> THEN (key :> f[key]) ELSE <<>>
TextOr(f, key, fallback) == key :> (IF Has(f, key) /\ f[key] # <<>> THEN f[key] ELSE fallback)
LabelOr(f, key, fallback) == key :> (IF Has(f, key) /\ f[key] # "" THEN f[key] ELSE fallback)

\* the Decision extractDecisionWithLLM returns for the fields f of the answer
LLMDecision(event, f) ==
    [id |-> <<"decision_llm_", event.id>>] @@ FromEvent(event)
    @@ TextOr(f, "decision_statement", <<"(no statement)">>)
    @@ OrNull(f, "rationale") @@ OrNull(f, "alternatives_considered")
    @@ OrNull(f, "tradeoffs") @@ OrNull(f, "problem_statement")
    @@ OrNull(f, "success_criteria") @@ OrNull(f, "implementation_notes")
    @@ LabelOr(f, "decision_type", "technical")
    @@ LabelOr(f, "scope", "component")
    @@ LabelOr(f, "reversibility", "reversible")
    @@ LabelOr(f, "decision_confidence", "medium")
    @@ [extraction_confidence |->
           Min(Max(IF Has(f, "extraction_confidence")
                   THEN f.extraction_confidence ELSE event.confidence_score, 0), 10)]

\* !parsed || !parsed.is_decision
NotADecision(parsed) ==
    \/ parsed.type # "object"
    \/ ~(Has(parsed.fields, "is_decision") /\ parsed.fields.is_decision)

\* mutant: an answer that is no decision falls through to the rule-based path
DecisionFromParsedOrRules(event, parsed) ==
    IF NotADecision(parsed) THEN extractDecisionRuleBased(event)
    ELSE LLMDecision(event, parsed.fields)

\* what extractDecisionWithLLM makes of the parsed answer
DecisionFromParsed(event, parsed) ==
    IF NotADecision(parsed) THEN NoDecision
    ELSE LLMDecision(event, parsed.fields)

\* ------------------------------------------------------------------ storage

Repositories == {"acme/api", "acme/web"}
MinConfidences == {4, 6}

\* mutant: among equal scores the oldest row first
PrecedesOldestFirst(a, b) ==
    \/ a.confidence_score > b.confidence_score
    \/ a.confidence_score = b.confidence_score /\ a.timestamp < b.timestamp

\* ORDER BY confidence_score DESC, timestamp DESC
Precedes(a, b) ==
    \/ a.confidence_score > b.confidence_score
    \/ a.confidence_score = b.confidence_score /\ a.timestamp > b.timestamp

RECURSIVE orderBy(_)
orderBy(rows) ==
    IF rows = {} THEN <<>>
    ELSE LET top == CHOOSE r \in rows : \A q \in rows \ {r} : Precedes(r, q)
         IN  <<top>> \o orderBy(rows \ {top})

getCandidateEvents(repository, minConfidence) ==
    orderBy({row \in normalized :
                row.repository = repository /\ row.confidence_score >= minConfidence})

\* EventNormalizer.getDecisionCandidates: the same query, asked by the normalizer
getDecisionCandidates(repository, minConfidence) ==
    orderBy({row \in normalized :
                row.repository = repository /\ row.confidence_score >= minConfidence})

\* mutant: INSERT OR IGNORE, the first extraction stays
storeDecisionKeepsFirst(decision) ==
    IF decision.id \in DOMAIN decisions THEN decisions
    ELSE (decision.id :> decision) @@ decisions

\* mutant: the Decision takes the place of every Decision of its source event
storeDecisionPerSource(decision) ==
    (decision.id :> decision)
    @@ [id \in {x \in DOMAIN decisions :
                   decisions[x].source_event_id # decision.source_event_id}
           |-> decisions[id]]

\* INSERT OR REPLACE INTO decisions
storeDecision(decision) == (decision.id :> decision) @@ decisions

\* ------------------------------------------------------------------ event store

\* JSON.stringify(event.data) and JSON.parse(row.data): the column holds the text
JSONstringify(data) == [json |-> data]
JSONparseData(column) == column.json

\* the row an INSERT INTO events writes for event
Row(event) ==
    [id |-> event.id, timestamp |-> event.timestamp, type |-> event.type,
     action |-> event.action, source |-> event.source, repository |-> event.repository,
     data |-> JSONstringify(event.data)]

StoredIds(table) == {row.id : row \in table}

\* mutant: INSERT OR REPLACE
insertOrReplace(table, event) ==
    {row \in table : row.id # event.id} \cup {Row(event)}

\* INSERT OR IGNORE INTO events: a row with this id stays as it is, and an event
\* that leaves a NOT NULL column undefined is skipped
insertOrIgnore(table, event) ==
    IF \/ ~ ({"timestamp", "type", "action", "source", "repository", "data"}
                \subseteq DOMAIN event)
       \/ event.id \in StoredIds(table)
    THEN table ELSE table \cup {Row(event)}

\* storeBatch: one transaction over the batch, in order
RECURSIVE storeBatch(_, _)
storeBatch(table, batch) ==
    IF batch = <<>> THEN table
    ELSE storeBatch(insertOrIgnore(table, Head(batch)), Tail(batch))

\* what better-sqlite3 throws when a statement fails
SqliteError(code) ==
    [name |-> "SqliteError", status |-> 0, message |-> <<code>>, from |-> "sqlite",
     code |-> code]

transactionUnwrapped(table, batch, failing) ==
    IF failing \in 1..Len(batch)
    THEN [table |-> storeBatch(table, SubSeq(batch, 1, failing - 1)),
          result |-> Threw(SqliteError("SQLITE_FULL"))]
    ELSE [table |-> storeBatch(table, batch), result |-> Returned(Len(batch), "storeBatch")]

\* transaction(events): the statements of the batch in one transaction, which is
\* rolled back when a statement throws; failing: the statement the storage
\* refuses (0: none)
transaction(table, batch, failing) ==
    IF failing \in 1..Len(batch)
    THEN [table |-> table, result |-> Threw(SqliteError("SQLITE_FULL"))]
    ELSE [table |-> storeBatch(table, batch), result |-> Returned(Len(batch), "storeBatch")]

\* INSERT INTO events: a second row with the id of a stored one is refused
insert(table, event) ==
    IF event.id \in StoredIds(table)
    THEN [table |-> table, error |-> SqliteError("SQLITE_CONSTRAINT_PRIMARYKEY")]
    ELSE [table |-> table \cup {Row(event)}, error |-> NoError]

\* the rows a statement added: info.changes
Changes(before, after) == Cardinality(after) - Cardinality(before)

\* mutant: the statement is an upsert
storeOverwrites(table, event) ==
    [table |-> insertOrReplace(table, event), result |-> Returned(1, "store")]

\* store: the INSERT, with SQLITE_CONSTRAINT_PRIMARYKEY caught and ignored
store(table, event) ==
    LET done == insert(table, event)
    IN  IF done.error = NoError
        THEN [table |-> done.table, result |-> Returned(Changes(table, done.table), "store")]
        ELSE IF done.error.code = "SQLITE_CONSTRAINT_PRIMARYKEY"
        THEN [table |-> done.table, result |-> Returned(0, "store")]
        ELSE [table |-> done.table, result |-> Threw(done.error)]

\* ORDER BY timestamp DESC
RECURSIVE newestFirst(_)
newestFirst(rows) ==
    IF rows = {} THEN <<>>
    ELSE LET top == CHOOSE r \in rows : \A q \in rows : q.timestamp <= r.timestamp
         IN  <<top>> \o newestFirst(rows \ {top})

\* getEvents({ repository }): the rows of the repository, data parsed
getEvents(repository) ==
    newestFirst({[row EXCEPT !.data = JSONparseData(@)] :
                    row \in {r \in events : r.repository = repository}})

\* INSERT OR REPLACE INTO normalized_events
storeNormalizedEvent(table, row) == {r \in table : r.id # row.id} \cup {row}

\* normalizeRepository: every raw event of the repository, normalized and stored
RECURSIVE normalizeAll(_, _)
normalizeAll(table, rawEvents) ==
    IF rawEvents = <<>> THEN table
    ELSE normalizeAll(storeNormalizedEvent(table, normalizeEvent(Head(rawEvents))),
                      Tail(rawEvents))

\* ------------------------------------------------------------------ state machine

\* explainComponent has not been called
NoExplanation == [kind |-> "none"]

\* extractDecisions has not been called a second time
NotStarted ==
    [pc |-> "idle", candidates |-> <<>>, i |-> 0, extracted |-> 0, skipped |-> 0,
     pending |-> [id |-> <<"null">>], outcomes |-> <<>>]

Init ==
    /\ \E env \in SUBSET Credentials : providers = LLMProvider(env)
    /\ \E raws \in SUBSET RawEventPool :
          /\ Cardinality(raws) <= MaxEvents
          /\ events = {Row(r) : r \in raws}
          /\ normalized = {normalizeEvent(r) : r \in raws}
    /\ decisions = <<>>
    /\ pc = "idle"
    /\ caller = "nobody"
    /\ candidates = <<>>
    /\ i = 0
    /\ extracted = 0
    /\ skipped = 0
    /\ pending = NoDecision
    /\ pIdx = 0
    /\ lastError = NoError
    /\ invoked = <<>>
    /\ completeResult = Nothing
    /\ jsonResult = Nothing
    /\ outcomes = <<>>
    /\ storeResult = Nothing
    /\ explanation = NoExplanation
    /\ scorerInput = <<>>
    /\ scorerOutput = detectDecisionIndicators(<<>>)
    /\ parked = NotStarted

Attempt == Len(invoked)

\* the provider call of the running complete is recorded
Invoke == [invoked EXCEPT ![Attempt] = Append(@, providers[pIdx])]

\* extractDecisions, after extractDecisionFromEvent returned decision by way of path:
\* a Decision goes to storeDecision, null counts as skipped
Extracted(decision, path) ==
    IF decision # NoDecision
    THEN /\ pending' = decision
         /\ pc' = "store"
         /\ outcomes' = Append(outcomes, [event |-> candidates[i].id, path |-> path,
                                          decision |-> decision, stored |-> "awaited"])
         /\ UNCHANGED <<i, extracted, skipped>>
    ELSE /\ skipped' = skipped + 1
         /\ i' = i + 1
         /\ pc' = "loop"
         /\ outcomes' = Append(outcomes, [event |-> candidates[i].id, path |-> path,
                                          decision |-> NoDecision, stored |-> "no"])
         /\ UNCHANGED <<pending, extracted>>

\* mutant: a failed Gateway call is taken for "no decision"
extractDecisionWithLLMSkip(event, jr) ==
    IF jr.kind = "error"
    THEN Extracted(NoDecision, "llm")
    ELSE Extracted(DecisionFromParsed(event, jr.value), "llm")

\* extractDecisionWithLLM, after completeJSON returned or threw
extractDecisionWithLLM(event, jr) ==
    IF jr.kind = "error"
    THEN Extracted(extractDecisionRuleBased(event), "fallback")
    ELSE Extracted(DecisionFromParsed(event, jr.value), "llm")

\* completeJSON returns or throws to its caller
Deliver(jr) ==
    /\ jsonResult' = jr
    /\ IF caller = "extractor"
       THEN extractDecisionWithLLM(candidates[i], jr)
       ELSE /\ pc' = "done"
            /\ UNCHANGED <<i, extracted, skipped, pending, outcomes>>

NoProviderError ==
    [name |-> "Error", status |-> 0,
     message |-> <<"no", "provider", "could", "serve", "the", "request">>,
     from |-> "LLMProvider"]

\* mutant: a new error replaces the last one
ExhaustedNoProvider(last) == Threw(NoProviderError)

\* mutant: the first provider's error is kept
ExhaustedFirst(last) == Threw(ErrorFrom(last, providers[1]))

\* complete, after the loop: throw lastError
Exhausted(last) == Threw(last)

\* mutant: the retry is allowed twice
completeJSONTwice(res) ==
    /\ completeResult' = res
    /\ IF res.kind = "error"
       THEN invoked' = Invoke /\ UNCHANGED pIdx /\ Deliver(Threw(res.error))
       ELSE IF Parses(cleaned(res.value))
       THEN /\ invoked' = Invoke
            /\ UNCHANGED pIdx
            /\ Deliver(Returned(JSONparse(cleaned(res.value)), "completeJSON"))
       ELSE IF Attempt <= 2
       THEN /\ invoked' = Append(Invoke, <<>>)          \* the retry: complete again
            /\ pIdx' = 1
            /\ UNCHANGED <<pc, jsonResult, i, extracted, skipped, pending, outcomes>>
       ELSE invoked' = Invoke /\ UNCHANGED pIdx /\ Deliver(Threw(SyntaxError))

\* completeJSON, after a complete call returned or threw res
completeJSON(res) ==
    /\ completeResult' = res
    /\ IF res.kind = "error"
       THEN invoked' = Invoke /\ UNCHANGED pIdx /\ Deliver(Threw(res.error))
       ELSE IF Parses(cleaned(res.value))
       THEN /\ invoked' = Invoke
            /\ UNCHANGED pIdx
            /\ Deliver(Returned(JSONparse(cleaned(res.value)), "completeJSON"))
       ELSE IF Attempt = 1
       THEN /\ invoked' = Append(Invoke, <<>>)          \* the retry: complete again
            /\ pIdx' = 1
            /\ UNCHANGED <<pc, jsonResult, i, extracted, skipped, pending, outcomes>>
       ELSE invoked' = Invoke /\ UNCHANGED pIdx /\ Deliver(Threw(SyntaxError))

\* complete: the first provider call is awaited
StartComplete ==
    /\ pc' = "calling"
    /\ pIdx' = 1
    /\ lastError' = NoError
    /\ invoked' = << <<>> >>
    /\ completeResult' = Nothing
    /\ jsonResult' = Nothing

\* a caller other than the extractor calls completeJSON
CallCompleteJSON ==
    /\ pc = "idle"
    /\ caller' = "direct"
    /\ IF isAvailable
       THEN StartComplete
       ELSE /\ pc' = "done"
            /\ invoked' = << <<>> >>
            /\ completeResult' = Threw(ConfigError)
            /\ jsonResult' = Threw(ConfigError)
            /\ UNCHANGED <<pIdx, lastError>>
    /\ UNCHANGED <<providers, normalized, decisions, candidates, i, extracted, skipped,
                   pending, outcomes>>
    /\ UNCHANGED <<events, storeResult, explanation, scorerInput, scorerOutput, parked>>

\* _callProvider resolves
ProviderReturns ==
    /\ pc = "calling"
    /\ \E text \in Completions :
          LET res == Returned(text, providers[pIdx])
          IN  /\ completeJSON(res)
              /\ lastError' = NoError
    /\ UNCHANGED <<providers, normalized, decisions, caller, candidates>>
    /\ UNCHANGED <<events, storeResult, explanation, scorerInput, scorerOutput, parked>>

\* _callProvider rejects with a quota error: the next provider, or throw lastError
ProviderQuotaError ==
    /\ pc = "calling"
    /\ \E f \in ProviderFailures :
          LET err == ErrorFrom(f, providers[pIdx])
          IN  /\ isQuotaError(err)
              /\ lastError' = err
              /\ IF pIdx < Len(providers)
                 THEN /\ pIdx' = pIdx + 1
                      /\ invoked' = Invoke
                      /\ UNCHANGED <<pc, completeResult, jsonResult, i, extracted, skipped,
                                     pending, outcomes>>
                 ELSE completeJSON(Exhausted(err))
    /\ UNCHANGED <<providers, normalized, decisions, caller, candidates>>
    /\ UNCHANGED <<events, storeResult, explanation, scorerInput, scorerOutput, parked>>

\* _callProvider rejects with any other error: surfaced at once
ProviderFatalError ==
    /\ pc = "calling"
    /\ \E f \in ProviderFailures :
          LET err == ErrorFrom(f, providers[pIdx])
          IN  /\ ~isQuotaError(err)
              /\ completeJSON(Threw(err))
    /\ lastError' = NoError
    /\ UNCHANGED <<providers, normalized, decisions, caller, candidates>>
    /\ UNCHANGED <<events, storeResult, explanation, scorerInput, scorerOutput, parked>>

\* the locals and awaited results of the finished Gateway call are gone
Forget ==
    /\ pIdx' = 0
    /\ lastError' = NoError
    /\ invoked' = <<>>
    /\ completeResult' = Nothing
    /\ jsonResult' = Nothing

\* extractDecisions up to its loop
extractDecisions ==
    /\ pc = "idle"
    /\ \E repository \in Repositories : \E minConfidence \in MinConfidences :
          candidates' = getCandidateEvents(repository, minConfidence)
    /\ caller' = "extractor"
    /\ extracted' = 0
    /\ skipped' = 0
    /\ i' = 1
    /\ pc' = "loop"
    /\ storeResult' = Nothing
    /\ UNCHANGED <<providers, normalized, decisions, pending, pIdx, lastError, invoked,
                   completeResult, jsonResult, outcomes>>
    /\ UNCHANGED <<events, explanation, scorerInput, scorerOutput, parked>>

\* extractDecisionFromEvent with a Gateway: extractDecisionWithLLM awaits completeJSON
RouteToLLM ==
    /\ pc = "loop"
    /\ i <= Len(candidates)
    /\ isAvailable
    /\ StartComplete
    /\ UNCHANGED <<providers, normalized, decisions, caller, candidates, i, extracted,
                   skipped, pending, outcomes>>
    /\ UNCHANGED <<events, storeResult, explanation, scorerInput, scorerOutput, parked>>

\* extractDecisionFromEvent without a Gateway
RouteToRuleBased ==
    /\ pc = "loop"
    /\ i <= Len(candidates)
    /\ ~isAvailable
    /\ Extracted(extractDecisionRuleBased(candidates[i]), "rule")
    /\ Forget
    /\ UNCHANGED <<providers, normalized, decisions, caller, candidates>>
    /\ UNCHANGED <<events, storeResult, explanation, scorerInput, scorerOutput, parked>>

Mark(how) == [outcomes EXCEPT ![Len(outcomes)].stored = how]

\* storeDecision resolves
StoreReturns ==
    /\ pc = "store"
    /\ pending.extraction_confidence # NaN      \* REAL NOT NULL: NaN is bound as NULL
    /\ decisions' = storeDecision(pending)
    /\ extracted' = extracted + 1
    /\ outcomes' = Mark("yes")
    /\ i' = i + 1
    /\ pc' = "loop"
    /\ Forget
    /\ UNCHANGED <<providers, normalized, caller, candidates, skipped, pending>>
    /\ UNCHANGED <<events, storeResult, explanation, scorerInput, scorerOutput, parked>>

\* mutant: the exception ends the batch
CaughtAborts ==
    /\ skipped' = skipped + 1
    /\ i' = i + 1
    /\ pc' = "done"

\* the catch of extractDecisions, after storeDecision rejected
Caught ==
    /\ skipped' = skipped + 1
    /\ i' = i + 1
    /\ pc' = "loop"

StoreThrows ==
    /\ pc = "store"
    /\ Caught
    /\ outcomes' = Mark("threw")
    /\ Forget
    /\ UNCHANGED <<providers, normalized, decisions, caller, candidates, extracted, pending>>
    /\ UNCHANGED <<events, storeResult, explanation, scorerInput, scorerOutput, parked>>

\* extractDecisions returns { extracted, skipped }
Return ==
    /\ pc = "loop"
    /\ i > Len(candidates)
    /\ pc' = "done"
    /\ Forget
    /\ UNCHANGED <<providers, normalized, decisions, caller, candidates, i, extracted,
                   skipped, pending, outcomes>>
    /\ UNCHANGED <<events, storeResult, explanation, scorerInput, scorerOutput, parked>>

Next ==
    \/ CallCompleteJSON
    \/ ProviderReturns
    \/ ProviderQuotaError
    \/ ProviderFatalError
    \/ extractDecisions
    \/ RouteToLLM
    \/ RouteToRuleBased
    \/ StoreReturns
    \/ StoreThrows
    \/ Return

Spec == Init /\ [][Next]_vars

\* ------------------------------------------------------------------ the pipeline

\* what the ingester hands to the event store: a pull request, a review of equal
\* score, a weak comment, a comment of another repository, and an event that
\* carries the id of the review with another payload
IngestedEvents ==
    { [id |-> "g1", timestamp |-> 1, type |-> "pull_request", repository |-> "acme/api",
       action |-> "created", source |-> "github",
       data |-> [author |-> "ann", number |-> 7,
                 title |-> <<"Switch", "to", "PostgreSQL">>,
                 body |-> <<"We", "decided", "to", "switch", "to", "PostgreSQL", "because",
                            "of", "better", "JSON", "support", ".", "This", "is", "costly",
                            "to", "reverse", "due", "to", "schema", "migration", ".">>]],
      [id |-> "g2", timestamp |-> 2, type |-> "pr_review", repository |-> "acme/api",
       action |-> "approved", source |-> "github",
       data |-> [author |-> "bob", pr_number |-> 7,
                 body |-> <<"approved", "because", "tests", "pass", ".">>]],
      [id |-> "g3", timestamp |-> 3, type |-> "pr_comment", repository |-> "acme/api",
       action |-> "created", source |-> "github",
       data |-> [author |-> "ann", pr_number |-> 7, body |-> <<"since", "fast">>]],
      [id |-> "g4", timestamp |-> 4, type |-> "pr_comment", repository |-> "acme/web",
       action |-> "created", source |-> "github",
       data |-> [author |-> "bob", pr_number |-> 8,
                 body |-> <<"let's", "use", "redis">>]],
      [id |-> "g2", timestamp |-> 5, type |-> "pr_review", repository |-> "acme/api",
       action |-> "changes_requested", source |-> "github",
       data |-> [author |-> "bob", pr_number |-> 7, body |-> <<"rejected">>]] }

\* the batches the ingester stores in one transaction
Batches ==
    {<<>>} \cup {<<a>> : a \in IngestedEvents}
           \cup {<<a, b>> : a \in IngestedEvents, b \in IngestedEvents}

\* the environments the process is started in
Environments == {{}, {"GROQ_API_KEY"}}

PipelineInit ==
    /\ \E env \in Environments : providers = LLMProvider(env)
    /\ events = {}
    /\ normalized = {}
    /\ decisions = <<>>
    /\ pc = "idle"
    /\ caller = "nobody"
    /\ candidates = <<>>
    /\ i = 0
    /\ extracted = 0
    /\ skipped = 0
    /\ pending = NoDecision
    /\ pIdx = 0
    /\ lastError = NoError
    /\ invoked = <<>>
    /\ completeResult = Nothing
    /\ jsonResult = Nothing
    /\ outcomes = <<>>
    /\ storeResult = Nothing
    /\ explanation = NoExplanation
    /\ scorerInput = <<>>
    /\ scorerOutput = detectDecisionIndicators(<<>>)
    /\ parked = NotStarted

\* EventStore.store(event)
StoreEvent ==
    /\ pc = "idle"
    /\ \E event \in IngestedEvents :
          /\ events' = store(events, event).table
          /\ storeResult' = store(events, event).result
          /\ Cardinality(events') <= MaxEvents
    /\ UNCHANGED <<providers, normalized, decisions, pc, caller, candidates, i, extracted,
                   skipped, pending, pIdx, lastError, invoked, completeResult, jsonResult,
                   outcomes, explanation, scorerInput, scorerOutput, parked>>

\* EventStore.storeBatch(events)
StoreBatch ==
    /\ pc = "idle"
    /\ \E batch \in Batches :
          /\ events' = storeBatch(events, batch)
          /\ storeResult' = Returned(Changes(events, events'), "storeBatch")
          /\ Cardinality(events') <= MaxEvents
    /\ UNCHANGED <<providers, normalized, decisions, pc, caller, candidates, i, extracted,
                   skipped, pending, pIdx, lastError, invoked, completeResult, jsonResult,
                   outcomes, explanation, scorerInput, scorerOutput, parked>>

\* EventNormalizer.normalizeRepository(repository)
normalizeRepository ==
    /\ pc = "idle"
    /\ \E repository \in Repositories :
          normalized' = normalizeAll(normalized, getEvents(repository))
    /\ UNCHANGED <<providers, events, storeResult, decisions, pc, caller, candidates, i, extracted,
                   skipped, pending, pIdx, lastError, invoked, completeResult, jsonResult,
                   outcomes, explanation, scorerInput, scorerOutput, parked>>

\* the process is started again: the singleton reads the environment anew
Restart ==
    /\ pc = "idle"
    /\ \E env \in Environments : providers' = LLMProvider(env)
    /\ UNCHANGED <<events, storeResult, normalized, decisions, pc, caller, candidates, i, extracted,
                   skipped, pending, pIdx, lastError, invoked, completeResult, jsonResult,
                   outcomes, explanation, scorerInput, scorerOutput, parked>>

\* the operation has returned to its caller, and the next one may be called
NextCall ==
    /\ pc = "done"
    /\ pc' = "idle"
    /\ caller' = "nobody"
    /\ candidates' = <<>>
    /\ i' = 0
    /\ extracted' = 0
    /\ skipped' = 0
    /\ pending' = NoDecision
    /\ outcomes' = <<>>
    /\ Forget
    /\ UNCHANGED <<providers, events, storeResult, normalized, decisions, explanation,
                   scorerInput, scorerOutput, parked>>

PipelineNext ==
    \/ StoreEvent
    \/ StoreBatch
    \/ normalizeRepository
    \/ Restart
    \/ extractDecisions
    \/ RouteToLLM
    \/ RouteToRuleBased
    \/ ProviderReturns
    \/ ProviderQuotaError
    \/ ProviderFatalError
    \/ StoreReturns
    \/ StoreThrows
    \/ Return
    \/ NextCall

Pipeline == PipelineInit /\ [][PipelineNext]_vars

\* ------------------------------------------------------------------ a run that is aborted

AbortRollsBack ==
    /\ caller = "extractor"
    /\ pc \notin {"idle", "done"}
    /\ pc' = "done"
    /\ decisions' = [id \in DOMAIN decisions \ {outcomes[k].decision.id : k \in 1..Len(outcomes)}
                        |-> decisions[id]]
    /\ Forget
    /\ UNCHANGED <<providers, events, storeResult, normalized, caller, candidates, i,
                   extracted, skipped, pending, outcomes, explanation, scorerInput,
                   scorerOutput, parked>>

\* the process is stopped while extractDecisions is suspended at an await: each
\* storeDecision before was a statement of its own, and nothing is undone
Abort ==
    /\ caller = "extractor"
    /\ pc \notin {"idle", "done"}
    /\ pc' = "done"
    /\ Forget
    /\ UNCHANGED <<providers, events, storeResult, normalized, decisions, caller,
                   candidates, i, extracted, skipped, pending, outcomes, explanation,
                   scorerInput, scorerOutput, parked>>

CancellationNext ==
    \/ PipelineNext
    \/ Abort

Cancellation == PipelineInit /\ [][CancellationNext]_vars

\* the normalize command lists the candidates of the repository
ShowCandidates ==
    /\ pc = "idle"
    /\ \E repository \in Repositories : \E minConfidence \in MinConfidences :
          candidates' = getDecisionCandidates(repository, minConfidence)
    /\ caller' = "normalizer"
    /\ UNCHANGED <<providers, events, storeResult, normalized, decisions, pc, i, extracted, skipped,
                   pending, pIdx, lastError, invoked, completeResult, jsonResult, outcomes,
                   explanation, scorerInput, scorerOutput, parked>>

\* ingestion and normalization alone
NormalizationNext ==
    \/ StoreEvent
    \/ StoreBatch
    \/ normalizeRepository
    \/ ShowCandidates

Normalization == PipelineInit /\ [][NormalizationNext]_vars

\* ------------------------------------------------------------------ the extractor and odd answers

\* _callProvider resolves with an answer of OddCompletions
ProviderReturnsOdd ==
    /\ pc = "calling"
    /\ \E text \in OddCompletions :
          LET res == Returned(text, providers[pIdx])
          IN  /\ completeJSON(res)
              /\ lastError' = NoError
    /\ UNCHANGED <<providers, normalized, decisions, caller, candidates>>
    /\ UNCHANGED <<events, storeResult, explanation, scorerInput, scorerOutput, parked>>

\* one extraction run, with a Gateway that may answer anything
ExtractionNext ==
    \/ extractDecisions
    \/ RouteToLLM
    \/ RouteToRuleBased
    \/ ProviderReturns
    \/ ProviderReturnsOdd
    \/ ProviderQuotaError
    \/ ProviderFatalError
    \/ StoreReturns
    \/ StoreThrows
    \/ Return

Extraction == Init /\ [][ExtractionNext]_vars

\* ------------------------------------------------------------------ two rule-based runs

\* a history under review: reviews that approve in either letter case or reject,
\* an issue, comments with and without a phrase of decision, commits and a pull
\* request on either side of the gate
ReviewedEvents ==
    { [id |-> "r1", timestamp |-> 1, type |-> "pr_review", repository |-> "acme/api",
       action |-> "approved", source |-> "github",
       data |-> [author |-> "ann", pr_number |-> 7,
                 body |-> <<"Approved", "because", "tests", "pass">>]],
      [id |-> "r2", timestamp |-> 2, type |-> "pr_review", repository |-> "acme/api",
       action |-> "approved", source |-> "github",
       data |-> [author |-> "bob", pr_number |-> 7, body |-> <<"approved">>]],
      [id |-> "r3", timestamp |-> 3, type |-> "pr_review", repository |-> "acme/api",
       action |-> "changes_requested", source |-> "github",
       data |-> [author |-> "bob", pr_number |-> 7,
                 body |-> <<"rejected", "because", "design">>]],
      [id |-> "r4", timestamp |-> 4, type |-> "issue", repository |-> "acme/api",
       action |-> "created", source |-> "github",
       data |-> [author |-> "ann", number |-> 9, title |-> <<"kafka">>,
                 body |-> <<"we", "decided", "to", "use", "kafka">>]],
      [id |-> "r5", timestamp |-> 5, type |-> "pr_comment", repository |-> "acme/api",
       action |-> "created", source |-> "github",
       data |-> [author |-> "ann", pr_number |-> 7,
                 body |-> <<"since", "fast", "but", "design">>]],
      [id |-> "r6", timestamp |-> 6, type |-> "pr_comment", repository |-> "acme/api",
       action |-> "created", source |-> "github",
       data |-> [author |-> "bob", pr_number |-> 7,
                 body |-> <<"i", "recommend", "kafka", "because", "performance">>]],
      [id |-> "r7", timestamp |-> 7, type |-> "commit", repository |-> "acme/api",
       action |-> "created", source |-> "github",
       data |-> [author |-> "ann", author_email |-> "ann@acme", sha |-> "abc",
                 message |-> <<"refactor", "since", "slow">>]],
      [id |-> "r8", timestamp |-> 8, type |-> "commit", repository |-> "acme/api",
       action |-> "created", source |-> "github",
       data |-> [author |-> "ann", author_email |-> "ann@acme", sha |-> "def",
                 message |-> <<"tradeoff">>]],
      [id |-> "r9", timestamp |-> 9, type |-> "pull_request", repository |-> "acme/api",
       action |-> "created", source |-> "github",
       data |-> [author |-> "bob", number |-> 8, title |-> <<"kafka">>,
                 body |-> <<"tradeoff">>]] }

\* the store holds some of these events, normalized; no key of a back end is set
RuleBasedInit ==
    /\ providers = LLMProvider({})
    /\ \E raws \in SUBSET ReviewedEvents :
          /\ Cardinality(raws) <= MaxEvents
          /\ events = {Row(r) : r \in raws}
          /\ normalized = {normalizeEvent(r) : r \in raws}
    /\ decisions = <<>>
    /\ pc = "idle"
    /\ caller = "nobody"
    /\ candidates = <<>>
    /\ i = 0
    /\ extracted = 0
    /\ skipped = 0
    /\ pending = NoDecision
    /\ pIdx = 0
    /\ lastError = NoError
    /\ invoked = <<>>
    /\ completeResult = Nothing
    /\ jsonResult = Nothing
    /\ outcomes = <<>>
    /\ storeResult = Nothing
    /\ explanation = NoExplanation
    /\ scorerInput = <<>>
    /\ scorerOutput = detectDecisionIndicators(<<>>)
    /\ parked = NotStarted

SwitchSharingCounters ==
    /\ ~isAvailable
    /\ parked' = [pc |-> pc, candidates |-> candidates, i |-> i, extracted |-> extracted,
                  skipped |-> skipped, pending |-> pending, outcomes |-> outcomes]
    /\ pc' = parked.pc
    /\ candidates' = parked.candidates
    /\ i' = parked.i
    /\ pending' = parked.pending
    /\ outcomes' = parked.outcomes
    /\ UNCHANGED <<extracted, skipped>>
    /\ UNCHANGED <<providers, normalized, decisions, caller, pIdx, lastError, invoked,
                   completeResult, jsonResult, events, storeResult, explanation,
                   scorerInput, scorerOutput>>

\* an await of extractDecisions: the run is suspended where it stands, with its
\* locals, and the other run goes on from where it was suspended
Switch ==
    /\ ~isAvailable
    /\ parked' = [pc |-> pc, candidates |-> candidates, i |-> i, extracted |-> extracted,
                  skipped |-> skipped, pending |-> pending, outcomes |-> outcomes]
    /\ pc' = parked.pc
    /\ candidates' = parked.candidates
    /\ i' = parked.i
    /\ extracted' = parked.extracted
    /\ skipped' = parked.skipped
    /\ pending' = parked.pending
    /\ outcomes' = parked.outcomes
    /\ UNCHANGED <<providers, normalized, decisions, caller, pIdx, lastError, invoked,
                   completeResult, jsonResult, events, storeResult, explanation,
                   scorerInput, scorerOutput>>

\* two runs of extractDecisions over a storage that does not fail
RuleBasedNext ==
    \/ extractDecisions
    \/ RouteToRuleBased
    \/ StoreReturns
    \/ Return
    \/ Switch

RuleBased == RuleBasedInit /\ [][RuleBasedNext]_vars

\* ------------------------------------------------------------------ explainer

\* the subjects explain is asked about: the words and signs of the name
Subjects ==
    { <<"kafka">>, <<"nonexistent", "-", "component">>, <<"PostgreSQL">>, <<"tests">>,
      <<"ann">> }

\* signs that a word of an FTS5 query may not hold unless the query quotes it
Fts5Signs == {"-", ".", "+"}

\* the words of events_fts.content: new.data || ' ' || new.type || ' ' || new.action,
\* as the tokenizer of the index folds them
ftsContent(row) ==
    LET d == JSONparseData(row.data)
    IN  UNION {{toLowerCase(TextOf(d, key)[k]) : k \in 1..Len(TextOf(d, key))} :
                  key \in {"title", "body", "message"}}
        \cup DOMAIN d
        \cup {d[key] : key \in DOMAIN d \cap {"author"}}
        \cup {row.type, row.action}

\* searchEvents(searchTerm, { repository, limit }): the term is the MATCH query as
\* it stands; its words are looked for in any order
searchEvents(searchTerm, repository) ==
    IF \E k \in 1..Len(searchTerm) : searchTerm[k] \in Fts5Signs
    THEN Threw(SqliteError("SQLITE_ERROR"))
    ELSE Returned(newestFirst({[row EXCEPT !.data = JSONparseData(@)] :
                     row \in {r \in events :
                                 /\ r.repository = repository
                                 /\ \A k \in 1..Len(searchTerm) :
                                       toLowerCase(searchTerm[k]) \in ftsContent(r)}}),
                  "searchEvents")

calculateRelevanceScoreUncapped(event, componentName) ==
    LET title == lower(TextOf(event.data, "title"))
        content == title \o lower(IF TextOf(event.data, "body") # <<>>
                                  THEN event.data.body ELSE TextOf(event.data, "message"))
        component == lower(componentName)
    IN  (IF includes(title, component) THEN 8 ELSE 0)
        + (IF includes(content, component) THEN 6 ELSE 0)
        + (IF event.type = "pull_request" THEN 2 ELSE 0)

calculateRelevanceScore(event, componentName) ==
    LET title == lower(TextOf(event.data, "title"))
        content == title \o lower(IF TextOf(event.data, "body") # <<>>
                                  THEN event.data.body ELSE TextOf(event.data, "message"))
        component == lower(componentName)
    IN  Min((IF includes(title, component) THEN 8 ELSE 0)
            + (IF includes(content, component) THEN 6 ELSE 0)
            + (IF event.type = "pull_request" THEN 2 ELSE 0), 10)

\* allEvents.filter((event, index, self) => index === self.findIndex(...))
RECURSIVE uniqueEvents(_)
uniqueEvents(allEvents) ==
    IF allEvents = <<>> THEN <<>>
    ELSE LET before == uniqueEvents(Front(allEvents))
         IN  IF \E k \in 1..Len(before) : before[k].id = Last(allEvents).id
             THEN before ELSE Append(before, Last(allEvents))

\* sort((a, b) => b.relevance_score - a.relevance_score), from score down
RECURSIVE byRelevance(_, _)
byRelevance(scored, score) ==
    IF score < 0 THEN <<>>
    ELSE SelectSeq(scored, LAMBDA e : e.relevance_score = score)
         \o byRelevance(scored, score - 1)

findRelatedEvents(repository, componentName) ==
    LET first == searchEvents(componentName, repository)
        second == searchEvents(lower(componentName), repository)
    IN  IF first.kind = "error" THEN first
        ELSE IF second.kind = "error" THEN second
        ELSE LET unique == uniqueEvents(first.value \o second.value)
                 scored == [k \in 1..Len(unique) |->
                               unique[k] @@ [relevance_score |->
                                   calculateRelevanceScore(unique[k], componentName)]]
             IN  Returned(byRelevance(SelectSeq(scored, LAMBDA e : e.relevance_score > 1),
                                      8 + 6 + 2),
                          "findRelatedEvents")

\* ORDER BY extraction_confidence DESC, timestamp DESC
RECURSIVE byConfidence(_)
byConfidence(rows) ==
    IF rows = {} THEN <<>>
    ELSE LET top == CHOOSE r \in rows : \A q \in rows \ {r} :
                        \/ r.extraction_confidence > q.extraction_confidence
                        \/ /\ r.extraction_confidence = q.extraction_confidence
                           /\ r.timestamp >= q.timestamp
         IN  <<top>> \o byConfidence(rows \ {top})

\* decision_statement LIKE %name% OR rationale LIKE %name%, in the repository
findRelatedDecisions(repository, componentName) ==
    byConfidence({decisions[id] : id \in
        {d \in DOMAIN decisions :
            /\ decisions[d].repository = repository
            /\ \/ includes(lower(decisions[d].decision_statement), lower(componentName))
               \/ includes(lower(TextOf(decisions[d], "rationale")), lower(componentName))}})

\* a score: tenths, as the quotient num / den
Score(num, den) == [num |-> num, den |-> den]

RECURSIVE sumConfidence(_)
sumConfidence(found) ==
    IF found = <<>> THEN 0 ELSE Head(found).extraction_confidence + sumConfidence(Tail(found))

calculateConfidence(found, related) ==
    IF found = <<>> THEN (IF related # <<>> THEN Score(3, 1) ELSE Score(0, 1))
    ELSE Score(sumConfidence(found), Len(found))

mapConfidenceLevel(score) ==
    IF score.num >= 8 * score.den THEN "high"
    ELSE IF score.num >= 6 * score.den THEN "medium"
    ELSE IF score.num >= 3 * score.den THEN "low"
    ELSE "very_low"

\* level: fresh, recent, aging or stale, by the day the question is asked
assessFreshness(related, level) ==
    IF related = <<>> THEN [level |-> "none"]
    ELSE [level |-> level,
          last_activity |-> (CHOOSE t \in {related[k].timestamp : k \in 1..Len(related)} :
                                \A k \in 1..Len(related) : related[k].timestamp <= t)]

identifyGaps(found, related) ==
    (IF found = <<>> THEN <<"No structured decisions extracted">> ELSE <<>>)
    \o (IF related = <<>> THEN <<"No related discussions found">> ELSE <<>>)

generateSummaryUncaught(answer, found, related) ==
    IF answer.kind # "none"
    THEN [text |-> IF answer.kind = "value" /\ answer.value.type = "object"
                      /\ TextOf(answer.value.fields, "summary") # <<>>
                   THEN answer.value.fields.summary ELSE <<"(no summary)">>,
          confidence |-> mapConfidenceLevel(calculateConfidence(found, related)),
          generated_by |-> "llm"]
    ELSE [text |-> <<"No recorded decisions or discussions found for this component.">>,
          confidence |-> "none", gaps |-> <<"No decision history available">>,
          generated_by |-> "fallback"]

\* generateSummary, given what completeJSON returned or threw (Nothing: not asked)
generateSummary(answer, found, related) ==
    IF answer.kind = "value" /\ answer.value.type = "object"
    THEN [text |-> IF TextOf(answer.value.fields, "summary") # <<>>
                   THEN answer.value.fields.summary ELSE <<"(no summary)">>,
          confidence |-> mapConfidenceLevel(calculateConfidence(found, related)),
          generated_by |-> "llm"]
    ELSE IF found = <<>> /\ related = <<>>
    THEN [text |-> <<"No recorded decisions or discussions found for this component.">>,
          confidence |-> "none", gaps |-> <<"No decision history available">>,
          generated_by |-> "fallback"]
    ELSE IF found = <<>>
    THEN [text |-> <<"Found", ToString(Len(related)),
                     "related discussions but no structured decisions recorded.">>,
          confidence |-> "low", gaps |-> <<"Decision extraction not completed">>,
          generated_by |-> "fallback"]
    ELSE [text |-> found[1].decision_statement
                   \o (IF TextOf(found[1], "rationale") # <<>>
                       THEN <<"Rationale:">> \o found[1].rationale ELSE <<>>),
          confidence |-> mapConfidenceLevel(Score(found[1].extraction_confidence, 1)),
          generated_by |-> "fallback"]

formatDecision(decision) ==
    [id |-> decision.id, statement |-> decision.decision_statement,
     type |-> decision.decision_type, scope |-> decision.scope,
     reversibility |-> decision.reversibility,
     confidence |-> mapConfidenceLevel(Score(decision.extraction_confidence, 1)),
     timestamp |-> decision.timestamp]
    @@ Pick(decision, "rationale", "rationale")
    @@ Pick(decision, "primary_decision_maker", "decision_maker")
    @@ Pick(decision, "related_pr_number", "related_pr")

\* addNode(id, label, group, title): a node is added once
addNode(graph, id, group) ==
    IF \E k \in 1..Len(graph.nodes) : graph.nodes[k].id = id
    THEN graph
    ELSE [graph EXCEPT !.nodes = Append(@, [id |-> id, group |-> group])]

\* addEdge(from, to, label): an edge is added once, and only between two nodes
\* the graph holds by then
addEdge(graph, from, to, label) ==
    IF /\ ~ \E k \in 1..Len(graph.edges) :
               graph.edges[k].from = from /\ graph.edges[k].to = to
       /\ \E k \in 1..Len(graph.nodes) : graph.nodes[k].id = from
       /\ \E k \in 1..Len(graph.nodes) : graph.nodes[k].id = to
    THEN [graph EXCEPT !.edges = Append(@, [from |-> from, to |-> to, label |-> label])]
    ELSE graph

\* decisions.forEach(decision => ...), from the k-th decision on
RECURSIVE decisionNodes(_, _, _, _)
decisionNodes(graph, centerId, found, k) ==
    IF k > Len(found) THEN graph
    ELSE LET decision == found[k]
             decisionId == <<"decision", decision.id>>
             node == addEdge(addNode(graph, decisionId, "decision"),
                             decisionId, centerId, "affects")
             made == IF Has(decision, "related_pr_number")
                     THEN addEdge(node, decisionId, <<"pr", decision.related_pr_number>>,
                                  "made in")
                     ELSE node
             decided == IF Has(decision, "primary_decision_maker")
                        THEN LET authorId == <<"author", decision.primary_decision_maker>>
                             IN  addEdge(addNode(made, authorId, "author"),
                                         authorId, decisionId, "decided")
                        ELSE made
         IN  decisionNodes(decided, centerId, found, k + 1)

\* events.forEach(event => ...), from the k-th event on
RECURSIVE eventNodes(_, _, _, _)
eventNodes(graph, centerId, related, k) ==
    IF k > Len(related) THEN graph
    ELSE LET event == related[k]
             named == event.type \in {"pull_request", "commit", "issue"}
             eventId == CASE event.type = "pull_request" -> <<"pr", event.data.number>>
                          [] event.type = "commit" -> <<"commit", event.data.sha>>
                          [] event.type = "issue" -> <<"issue", event.data.number>>
                          [] OTHER -> <<>>
             authorId == <<"author", event.data.author>>
             typed == CASE event.type = "pull_request" ->
                               addEdge(addNode(graph, eventId, "pull_request"),
                                       eventId, centerId, "modifies")
                        [] event.type = "commit" ->
                               addEdge(addNode(graph, eventId, "commit"),
                                       eventId, centerId, "touches")
                        [] event.type = "issue" ->
                               addEdge(addNode(graph, eventId, "issue"),
                                       eventId, centerId, "references")
                        [] event.type \in {"pr_comment", "pr_review"} ->
                               IF \E n \in 1..Len(graph.nodes) :
                                      graph.nodes[n].id = <<"pr", event.data.pr_number>>
                               THEN addEdge(addNode(graph, authorId, "author"), authorId,
                                            <<"pr", event.data.pr_number>>, "commented on")
                               ELSE graph
                        [] OTHER -> graph
             authored == IF Has(event.data, "author") /\ named
                         THEN addEdge(addNode(typed, authorId, "author"),
                                      authorId, eventId, "authored")
                         ELSE typed
         IN  eventNodes(authored, centerId, related, k + 1)

\* buildComponentGraph(componentName, events, decisions): the node of the
\* component, then the decisions, then the events
buildComponentGraph(componentName, related, found) ==
    LET centerId == <<"component", componentName>>
        center == addNode([nodes |-> <<>>, edges |-> <<>>], centerId, "component")
    IN  eventNodes(decisionNodes(center, centerId, found, 1), centerId, related, 1)

\* what explainComponent returns; completeJSON: the calls of it that were made
Explained(repository, componentName, found, related, level, answer) ==
    [kind |-> "value", component |-> componentName, repository |-> repository,
     summary |-> generateSummary(answer, found, related),
     decisions |-> [k \in 1..Len(found) |-> formatDecision(found[k])],
     evidence |-> [total_events |-> Len(related), decision_count |-> Len(found),
                   confidence_score |-> calculateConfidence(found, related),
                   data_freshness |-> assessFreshness(related, level)],
     gaps |-> identifyGaps(found, related),
     graph |-> buildComponentGraph(componentName, related, found),
     completeJSON |-> IF answer = Nothing THEN 0 ELSE 1]

\* explainComponent, up to the summary: it returns at once, or rejects with the
\* error of the search, or awaits completeJSON
explainComponent ==
    /\ pc = "idle"
    /\ \E repository \in Repositories : \E componentName \in Subjects :
       \E level \in {"fresh", "recent", "aging", "stale"} :
          LET related == findRelatedEvents(repository, componentName)
              found == findRelatedDecisions(repository, componentName)
          IN  IF related.kind = "error"
              THEN /\ explanation' = [kind |-> "error", component |-> componentName,
                                      repository |-> repository, error |-> related.error]
                   /\ UNCHANGED <<pc, caller, pIdx, lastError, invoked, completeResult,
                                  jsonResult>>
              ELSE IF isAvailable /\ (found # <<>> \/ related.value # <<>>)
              THEN /\ explanation' = [kind |-> "awaiting", component |-> componentName,
                                      repository |-> repository, decisions |-> found,
                                      events |-> related.value, level |-> level]
                   /\ caller' = "explainer"
                   /\ StartComplete
              ELSE /\ explanation' = Explained(repository, componentName, found,
                                               related.value, level, Nothing)
                   /\ UNCHANGED <<pc, caller, pIdx, lastError, invoked, completeResult,
                                  jsonResult>>
    /\ UNCHANGED <<providers, normalized, decisions, candidates, i, extracted, skipped,
                   pending, outcomes, events, storeResult, scorerInput, scorerOutput, parked>>

\* completeJSON has returned or thrown: the summary is made and explainComponent returns
Summarized ==
    /\ pc = "done"
    /\ caller = "explainer"
    /\ explanation' = Explained(explanation.repository, explanation.component,
                                explanation.decisions, explanation.events,
                                explanation.level, jsonResult)
    /\ pc' = "idle"
    /\ caller' = "nobody"
    /\ Forget
    /\ UNCHANGED <<providers, normalized, decisions, candidates, i, extracted, skipped,
                   pending, outcomes, events, storeResult, scorerInput, scorerOutput, parked>>

\* an issue the ingester hands over as well: its title names a subject that the
\* title of the pull request names
ReportedIssues ==
    { [id |-> "g5", timestamp |-> 6, type |-> "issue", repository |-> "acme/api",
       action |-> "opened", source |-> "github",
       data |-> [author |-> "bob", number |-> 9,
                 title |-> <<"PostgreSQL", "tests">>,
                 body |-> <<"tests", "fail">>]] }

\* a store after ingestion, normalization and a rule-based extraction, or before it
ExplainInit ==
    /\ \E env \in Environments : providers = LLMProvider(env)
    /\ \E raws \in SUBSET (IngestedEvents \cup ReportedIssues) :
          /\ Cardinality(raws) <= MaxEvents
          /\ Cardinality({r.id : r \in raws}) = Cardinality(raws)
          /\ events = {Row(r) : r \in raws}
          /\ normalized = {normalizeEvent(r) : r \in raws}
    /\ \E ran \in BOOLEAN :
          LET made == {row \in normalized :
                          /\ ran
                          /\ row.confidence_score >= 4
                          /\ extractDecisionRuleBased(row) # NoDecision}
          IN  decisions = [id \in {<<"decision_", row.id>> : row \in made} |->
                              extractDecisionRuleBased(
                                  CHOOSE row \in made : <<"decision_", row.id>> = id)]
    /\ pc = "idle"
    /\ caller = "nobody"
    /\ candidates = <<>>
    /\ i = 0
    /\ extracted = 0
    /\ skipped = 0
    /\ pending = NoDecision
    /\ pIdx = 0
    /\ lastError = NoError
    /\ invoked = <<>>
    /\ completeResult = Nothing
    /\ jsonResult = Nothing
    /\ outcomes = <<>>
    /\ storeResult = Nothing
    /\ explanation = NoExplanation
    /\ scorerInput = <<>>
    /\ scorerOutput = detectDecisionIndicators(<<>>)
    /\ parked = NotStarted

ExplainNext ==
    \/ explainComponent
    \/ ProviderReturns
    \/ ProviderQuotaError
    \/ ProviderFatalError
    \/ Summarized

Explain == ExplainInit /\ [][ExplainNext]_vars

\* ------------------------------------------------------------------ the event store alone

\* EventStore.storeBatch(events) for any batch a caller hands over: events of the
\* ingester, an event that lacks its action, and a storage that may refuse a
\* statement; storeResult keeps the batch of the call
StoreAnyBatch ==
    /\ pc = "idle"
    /\ \E a, b \in IngestedEvents \cup ReportedIssues
                  \cup {[id |-> "g6", timestamp |-> 7, type |-> "pr_comment",
                         repository |-> "acme/api", source |-> "github",
                         data |-> [author |-> "ann", pr_number |-> 7,
                                   body |-> <<"fine">>]]} :
       \E batch \in {<<a>>, <<a, b>>} : \E failing \in 0..Len(batch) :
          LET done == transaction(events, batch, failing)
          IN  /\ events' = done.table
              /\ storeResult' = done.result @@ [batch |-> batch]
              /\ Cardinality(events') <= MaxEvents
    /\ UNCHANGED <<providers, normalized, decisions, pc, caller, candidates, i, extracted,
                   skipped, pending, pIdx, lastError, invoked, completeResult, jsonResult,
                   outcomes, explanation, scorerInput, scorerOutput, parked>>

Ingestion == PipelineInit /\ [][StoreAnyBatch]_vars

\* ------------------------------------------------------------------ the scorer alone

\* the words the contents are made of: words of three patterns, one of them
\* capitalised, and the two words of a phrase, which alone match nothing
Words == {"decided", "Approved", "because", "let's", "use"}

\* the contents of the ingested events, as the normalizer extracts them
Contents == {extractContent(event).content : event \in IngestedEvents}

ScorerInit ==
    /\ PipelineInit
    /\ providers = <<>>

\* detectDecisionIndicators is given the content of an event
ScoreContent ==
    /\ \E content \in Contents :
          /\ scorerInput' = content
          /\ scorerOutput' = detectDecisionIndicators(content)
    /\ UNCHANGED <<providers, normalized, decisions, pc, caller, candidates, i, extracted,
                   skipped, pending, pIdx, lastError, invoked, completeResult, jsonResult,
                   outcomes, events, storeResult, explanation, parked>>

\* detectDecisionIndicators is given the content of before with one more word
ScoreLonger ==
    /\ Len(scorerInput) < MaxLen
    /\ \E w \in Words :
          /\ scorerInput' = Append(scorerInput, w)
          /\ scorerOutput' = detectDecisionIndicators(scorerInput')
    /\ UNCHANGED <<providers, normalized, decisions, pc, caller, candidates, i, extracted,
                   skipped, pending, pIdx, lastError, invoked, completeResult, jsonResult,
                   outcomes, events, storeResult, explanation, parked>>

ScorerNext ==
    \/ ScoreContent
    \/ ScoreLonger

Scorer == ScorerInit /\ [][ScorerNext]_vars

\* ------------------------------------------------------------------ properties

\* the claims' own reading of "retryable": status 400/401/429, or a
\* quota / rate-limit / credit / key message
Retryable(e) == e.status \in {400, 401, 429} \/ QuotaMessage(e.message)

\* an error object a back end p raised
RaisedBy(e, p) == \E f \in ProviderFailures : e = ErrorFrom(f, p)

\* a complete call has returned or thrown, and these are the back ends it called
Finished == completeResult # Nothing
Calls == IF pc = "calling" THEN invoked[1] ELSE invoked[Len(invoked)]
Prefix(n) == SubSeq(providers, 1, n)

\* every back end was tried and the last one failed with a quota error
AllFailed == Finished /\ pc # "calling" /\ lastError # NoError

\* the candidate whose extraction has just returned
InHand == IF pc = "store" THEN candidates[i] ELSE candidates[i - 1]
JustExtracted ==
    /\ caller = "extractor"
    /\ pc \in {"loop", "store"}
    /\ jsonResult # Nothing

\* C1: failover. While complete runs, the back ends before the one awaited were each
\* called once, in priority order, and the one just passed over failed with a
\* retryable error; a complete call that returns a text returns the text of the last
\* back end it called, with no error, after calling back ends 1..k once each in
\* order and none after k; and a complete call never ends on a retryable error while
\* a back end is left.
C1_Failover ==
    /\ pc = "calling" =>
          /\ invoked[Attempt] = Prefix(pIdx - 1)
          /\ pIdx \in 1..Len(providers)
          /\ pIdx > 1 => Retryable(lastError) /\ RaisedBy(lastError, providers[pIdx - 1])
    /\ (Finished /\ completeResult.kind = "value") =>
          /\ Calls # <<>>
          /\ Calls = Prefix(Len(Calls))
          /\ completeResult.from = providers[Len(Calls)]
          /\ completeResult.value \in Completions
          /\ completeResult.error = NoError
    /\ (Finished /\ completeResult.kind = "error" /\ Retryable(completeResult.error)) =>
          Calls = providers

\* the third of three back ends answered after the first two were passed over
C1_Witness ==
    /\ Finished
    /\ completeResult.kind = "value"
    /\ Len(providers) = 3
    /\ Calls = providers
    /\ completeResult.from = "Anthropic"

\* C2: fatal short-circuit. No back end is awaited after a failure that is not
\* retryable; a complete call that ends on such a failure of back end N throws that
\* very error, has called back ends 1..N only, and completeJSON passes the error on
\* without a retry.
C2_FatalShortCircuit ==
    /\ (pc = "calling" /\ pIdx > 1) => Retryable(lastError)
    /\ (Finished /\ pc # "calling" /\ completeResult.kind = "error"
          /\ ~Retryable(completeResult.error) /\ isAvailable) =>
          /\ Calls # <<>>
          /\ Calls = Prefix(Len(Calls))
          /\ RaisedBy(completeResult.error, providers[Len(Calls)])
          /\ jsonResult = Threw(completeResult.error)

\* the first of several back ends failed fatally and the others were never called
C2_Witness ==
    /\ Finished
    /\ pc # "calling"
    /\ completeResult.kind = "error"
    /\ completeResult.error.status = 500
    /\ Len(providers) > 1
    /\ invoked = << <<providers[1]>> >>

\* C3: when every back end failed with a retryable error, complete throws the error
\* the last back end raised, unchanged, and that is the error the caller gets.
C3_LastErrorSurfaced ==
    AllFailed =>
        /\ Calls = providers
        /\ completeResult = Threw(lastError)
        /\ RaisedBy(completeResult.error, providers[Len(providers)])
        /\ Retryable(completeResult.error)
        /\ jsonResult = Threw(lastError)

\* three back ends all failed, the last one with a 429
C3_Witness ==
    /\ AllFailed
    /\ Len(providers) = 3
    /\ completeResult.error.status = 429
    /\ completeResult.error.from = "Anthropic"

\* C4 as claimed: when a retryable failure leaves no back end to try, complete fails
\* with a "no provider could serve the request" failure.
C4_NoProviderFailure == AllFailed => completeResult.error = NoProviderError

\* C4 as amended: when a retryable failure leaves no back end to try, complete fails
\* with that retryable failure itself; no complete call ever fails with a "no
\* provider could serve the request" failure.
C4_FailsWithTheRetryableFailure ==
    /\ Finished => completeResult.error # NoProviderError
    /\ jsonResult.error # NoProviderError
    /\ AllFailed =>
          /\ completeResult.kind = "error"
          /\ completeResult.error.from = providers[Len(providers)]
          /\ completeResult.error.message # NoProviderError.message

\* a single back end failed with a quota message and nothing was left to try
C4_Witness ==
    /\ AllFailed
    /\ Len(providers) = 1
    /\ completeResult.error.message = <<"quota", "exceeded">>

\* C5: with no back end configured isAvailable is false; completeJSON fails at once
\* with the configuration error and no back end is called; and the extractor sends
\* every candidate down the rule-based path and never calls the Gateway.
C5_NoBackEnds ==
    providers = <<>> =>
        /\ ~isAvailable
        /\ pc # "calling"
        /\ (caller = "direct" /\ pc = "done") =>
              /\ completeResult = Threw(ConfigError)
              /\ jsonResult = Threw(ConfigError)
              /\ invoked = << <<>> >>
        /\ caller = "extractor" =>
              /\ invoked = <<>>
              /\ completeResult = Nothing
              /\ jsonResult = Nothing
              /\ \A k \in 1..Len(outcomes) : outcomes[k].path = "rule"

\* without back ends a run went over two candidates by rule
C5_Witness ==
    /\ providers = <<>>
    /\ caller = "extractor"
    /\ pc = "done"
    /\ Len(outcomes) = 2
    /\ outcomes[1].stored = "yes"

\* a direct call without back ends failed with the configuration error
C5_WitnessDirect ==
    /\ providers = <<>>
    /\ caller = "direct"
    /\ pc = "done"

\* C6: completeJSON calls complete at most twice, a second time only when the first
\* text did not parse; it returns the parsed value of a text that parses, and throws
\* the parse error when the second text does not parse either; each complete call
\* starts with the first back end.
C6_RetryOnce ==
    /\ Attempt <= 2
    /\ (pc = "calling" /\ Attempt = 2) =>
          completeResult.kind = "value" /\ ~Parses(cleaned(completeResult.value))
    /\ \A a \in 1..Attempt :
          /\ invoked[a] = Prefix(Len(invoked[a]))
          /\ (a < Attempt \/ pc # "calling") => invoked[a] # <<>> \/ ~isAvailable
    /\ (pc # "calling" /\ Finished /\ completeResult.kind = "value") =>
          IF Parses(cleaned(completeResult.value))
          THEN jsonResult = Returned(JSONparse(cleaned(completeResult.value)), "completeJSON")
          ELSE Attempt = 2 /\ jsonResult = Threw(SyntaxError)

\* the second text did not parse either, after a failover inside the second attempt
C6_Witness ==
    /\ Attempt = 2
    /\ pc # "calling"
    /\ jsonResult = Threw(SyntaxError)
    /\ Len(invoked[1]) = 1
    /\ Len(invoked[2]) = 2

\* C7: when the Gateway's parsed answer says is_decision = false, the candidate
\* yields no Decision, is counted as skipped, and the rule-based path is not taken.
C7_NoMeansSkip ==
    (JustExtracted /\ jsonResult.kind = "value" /\ NotADecision(jsonResult.value)) =>
        /\ pc = "loop"
        /\ outcomes[Len(outcomes)] =
              [event |-> InHand.id, path |-> "llm", decision |-> NoDecision, stored |-> "no"]
        /\ skipped = Cardinality({k \in 1..Len(outcomes) : outcomes[k].stored # "yes"})
        /\ skipped >= 1

\* the Gateway said no to a candidate the rules would have turned into a Decision
C7_Witness ==
    /\ JustExtracted
    /\ jsonResult.kind = "value"
    /\ jsonResult.value = ObjNo
    /\ pc = "loop"
    /\ extractDecisionRuleBased(InHand) # NoDecision

\* C8: when completeJSON throws (back ends exhausted, a fatal error, or a text that
\* still does not parse), the candidate's outcome is the rule-based outcome: its
\* Decision goes to storeDecision, and it is skipped only when the rules yield none.
C8_FailureFallsBack ==
    (JustExtracted /\ jsonResult.kind = "error") =>
        /\ outcomes[Len(outcomes)].event = InHand.id
        /\ outcomes[Len(outcomes)].path = "fallback"
        /\ outcomes[Len(outcomes)].decision = extractDecisionRuleBased(InHand)
        /\ IF extractDecisionRuleBased(InHand) = NoDecision
           THEN pc = "loop"
           ELSE pc = "store" /\ pending = extractDecisionRuleBased(InHand)

\* a text that did not parse twice led to a rule-based Decision
C8_Witness ==
    /\ JustExtracted
    /\ jsonResult = Threw(SyntaxError)
    /\ pc = "store"
    /\ pending.id[1] = "decision_"

\* C9: with a Gateway that is available and throws, a pr_review candidate whose
\* content contains "approved" and that passes the gate yields the rule-based
\* approval Decision: type approval, scope component, reversible.
C9_FallbackApproval ==
    (/\ JustExtracted
     /\ jsonResult.kind = "error"
     /\ InHand.event_type = "pr_review"
     /\ includes(InHand.content, <<"approved">>)
     /\ \/ InHand.confidence_score >= 6
        \/ \E k \in 1..Len(InHand.decision_indicators) :
              InHand.decision_indicators[k].type \in StrongTypes) =>
        /\ pc = "store"
        /\ pending # NoDecision
        /\ pending = extractDecisionRuleBased(InHand)
        /\ pending.id = <<"decision_", InHand.id>>
        /\ pending.decision_type = "approval"
        /\ pending.scope = "component"
        /\ pending.reversibility = "reversible"
        /\ pending.source_event_id = InHand.id
        /\ pending.decision_statement[1] = "Approved"

\* the approved review e1 after every back end failed
C9_Witness ==
    /\ JustExtracted
    /\ AllFailed
    /\ InHand.id = <<"norm_", "e1">>
    /\ pending.decision_type = "approval"

\* C10: an exception of storeDecision is counted as skipped and the loop goes on:
\* at any time extracted + skipped is the number of candidates done, in order;
\* extracted counts the candidates whose Decision was stored, and those Decisions
\* are in the table; on return every candidate was processed.
C10_BatchNeverAborts ==
    caller = "extractor" =>
        /\ extracted = Cardinality({k \in 1..Len(outcomes) : outcomes[k].stored = "yes"})
        /\ skipped = Cardinality({k \in 1..Len(outcomes) : outcomes[k].stored \in {"no", "threw"}})
        /\ extracted + skipped = i - 1
        /\ \A k \in 1..Len(outcomes) :
              /\ outcomes[k].event = candidates[k].id
              /\ outcomes[k].stored = "yes" =>
                    /\ outcomes[k].decision.id \in DOMAIN decisions
                    /\ decisions[outcomes[k].decision.id] = outcomes[k].decision
        /\ pc = "done" =>
              /\ extracted + skipped = Len(candidates)
              /\ Len(outcomes) = Len(candidates)

\* storeDecision threw for the first candidate and the second was stored
C10_Witness ==
    /\ caller = "extractor"
    /\ pc = "done"
    /\ Len(outcomes) = 2
    /\ outcomes[1].stored = "threw"
    /\ outcomes[2].stored = "yes"

\* ------------------------------------------------------------------ properties of the pipeline

\* the rows of normalized_events a run over repository with floor minConfidence is about
Qualifying(repository, minConfidence) ==
    {row \in normalized :
        row.repository = repository /\ row.confidence_score >= minConfidence}

\* C11: during an extraction run the candidates are exactly the normalized rows of
\* one repository at or above the floor, each once, by confidence descending and
\* among equal confidence by timestamp descending, and the candidates processed
\* so far are the first ones of that list, in that order.
C11_CandidatesInOrder ==
    caller = "extractor" =>
        /\ \E repository \in Repositories : \E minConfidence \in MinConfidences :
              /\ {candidates[k] : k \in 1..Len(candidates)}
                     = Qualifying(repository, minConfidence)
              /\ Len(candidates) = Cardinality(Qualifying(repository, minConfidence))
        /\ \A j \in 1..Len(candidates) : \A k \in (j + 1)..Len(candidates) :
              \/ candidates[j].confidence_score > candidates[k].confidence_score
              \/ /\ candidates[j].confidence_score = candidates[k].confidence_score
                 /\ candidates[j].timestamp >= candidates[k].timestamp
        /\ Len(outcomes) \in {i - 1, i}
        /\ Len(outcomes) <= Len(candidates)
        /\ \A k \in 1..Len(outcomes) : outcomes[k].event = candidates[k].id

\* two candidates of equal confidence, both processed, the newer one first
C11_Witness ==
    /\ caller = "extractor"
    /\ Len(candidates) = 2
    /\ Len(outcomes) = 2
    /\ candidates[1].confidence_score = candidates[2].confidence_score
    /\ candidates[1].timestamp > candidates[2].timestamp

\* a row of events as getEvents returns it
Parsed(row) == [row EXCEPT !.data = JSONparseData(@)]

\* the NormalizedEvents of the raw events of a repository
ImageOf(repository) ==
    {normalizeEvent(Parsed(row)) : row \in {r \in events : r.repository = repository}}

\* C12: normalization is idempotent. Every row of normalized_events is the
\* NormalizedEvent of a stored raw event, with the id derived from the raw id, and
\* no raw event has two rows; for every repository, normalizing it leaves exactly
\* one row per raw event of the repository, and normalizing it again changes
\* nothing.
C12_IdempotentNormalization ==
    /\ \A row \in normalized :
          /\ row.id = <<"norm_", row.original_event_id>>
          /\ \E raw \in events :
                /\ raw.id = row.original_event_id
                /\ row = normalizeEvent(Parsed(raw))
    /\ \A a \in normalized : \A b \in normalized :
          (a.id = b.id \/ a.original_event_id = b.original_event_id) => a = b
    /\ \A repository \in Repositories :
          LET once == normalizeAll(normalized, getEvents(repository))
              twice == normalizeAll(once, getEvents(repository))
          IN  /\ {row \in once : row.repository = repository} = ImageOf(repository)
              /\ Cardinality(ImageOf(repository))
                    = Cardinality({r \in events : r.repository = repository})
              /\ twice = once

\* both events of a repository are normalized, one of them stored and normalized
\* before the other came in
C12_Witness ==
    /\ pc = "idle"
    /\ Cardinality(ImageOf("acme/api")) = 2
    /\ ImageOf("acme/api") = normalized

\* C13 as stated: the store never holds two Decisions of one source_event_id.
C13_OnePerSourceEvent ==
    \A a \in DOMAIN decisions : \A b \in DOMAIN decisions :
        decisions[a].source_event_id = decisions[b].source_event_id => a = b

\* C13, amended: a Decision is stored under its own id, which is decision_llm_
\* followed by the source event's id when it was built from the Gateway's answer
\* and decision_ followed by it when it is rule-based, so a source event has at
\* most one Decision of each kind; and what a run stored for a candidate is what
\* the store holds under that id, whatever it held before.
C13_OnePerSourceAndPath ==
    /\ \A id \in DOMAIN decisions :
          /\ decisions[id].id = id
          /\ id \in {<<"decision_", decisions[id].source_event_id>>,
                      <<"decision_llm_", decisions[id].source_event_id>>}
    /\ caller = "extractor" =>
          \A k \in 1..Len(outcomes) :
              outcomes[k].stored = "yes" =>
                  /\ outcomes[k].decision.id \in DOMAIN decisions
                  /\ decisions[outcomes[k].decision.id] = outcomes[k].decision

\* one source event with a Decision of each kind, the rule-based one stored by
\* the run in progress
C13_Witness ==
    /\ caller = "extractor"
    /\ \E k \in 1..Len(outcomes) :
          /\ outcomes[k].stored = "yes"
          /\ outcomes[k].path \in {"rule", "fallback"}
          /\ <<"decision_llm_", outcomes[k].event>> \in DOMAIN decisions
          /\ <<"decision_", outcomes[k].event>> \in DOMAIN decisions

\* C14: Decisions are never deleted. No step of ingestion, normalization or
\* extraction takes an id out of the decisions table.
C14_NeverDeleted ==
    [][\A id \in DOMAIN decisions : id \in DOMAIN decisions']_vars

\* a later run skipped an event (the answer was "no decision", or the rules found
\* none) whose Decision of an earlier run is still stored
C14_Witness ==
    /\ caller = "extractor"
    /\ \E k \in 1..Len(outcomes) :
          /\ outcomes[k].stored = "no"
          /\ outcomes[k].path = "llm"
          /\ \E id \in DOMAIN decisions :
                decisions[id].source_event_id = outcomes[k].event

\* C15: raw events are immutable and append-only. No step of the event store, the
\* normalizer or the extractor changes or removes a row of events, and no call of
\* store or storeBatch ends with an error; so a call with an id that is already
\* stored leaves the stored row as it is and returns normally.
C15_RawEventsImmutable ==
    [][/\ \A row \in events : row \in events'
       /\ storeResult'.kind # "error"]_vars

\* the review was stored and normalized, store was then called with an event that
\* carries its id and added no row, and the row is the review still
C15_Witness ==
    /\ storeResult = Returned(0, "store")
    /\ \E row \in events : row.id = "g2" /\ row.action = "approved"
    /\ \E row \in normalized : row.original_event_id = "g2"

\* the event of the end-to-end scenario: a pull request whose body has "decided",
\* a "because" clause, "schema" and "migration"
Scenario(row) ==
    /\ row.event_type = "pull_request"
    /\ \A w \in {"decided", "because", "schema", "migration"} :
          \E k \in 1..Len(row.content) : toLowerCase(row.content[k]) = w

\* the words after the first "because", up to the end of the sentence
BecauseClause(content) ==
    LET from == CHOOSE s \in 1..Len(content) :
                    /\ toLowerCase(content[s]) = "because"
                    /\ \A t \in 1..(s - 1) : toLowerCase(content[t]) # "because"
        ends == {e \in (from + 1)..Len(content) : content[e] \in {".", "!", "?"}}
        to == IF ends = {} THEN Len(content)
              ELSE (CHOOSE e \in ends : \A f \in ends : e <= f) - 1
    IN  SubSeq(content, from + 1, to)

\* the candidates of the scenario that the rule-based extractor was given, and
\* what it made of them
RuleBasedScenario ==
    {k \in 1..Len(outcomes) :
        /\ outcomes[k].path = "rule"
        /\ \E row \in normalized : row.id = outcomes[k].event /\ Scenario(row)}

ScenarioRow(k) == CHOOSE row \in normalized : row.id = outcomes[k].event

ScenarioScored ==
    \A row \in normalized :
       Scenario(row) =>
          /\ row.confidence_score > 4
          /\ \E k \in 1..Len(row.decision_indicators) :
                row.decision_indicators[k].type = "explicit_decision"

ScenarioDecision(k, reversibility) ==
    LET decision == outcomes[k].decision
    IN  /\ decision # NoDecision
        /\ decision.decision_type = "technical"
        /\ decision.reversibility = reversibility
        /\ Has(decision, "rationale")
        /\ decision.rationale = BecauseClause(ScenarioRow(k).content)
        /\ outcomes[k].stored = "yes" => /\ decision.id \in DOMAIN decisions
                                         /\ decisions[decision.id] = decision

\* C17 as stated: the pull request of the scenario is normalized with confidence
\* above 0.4 and an explicit_decision indicator, and with no Gateway its Decision
\* is technical, irreversible, with the "because" clause as rationale.
C17_ScenarioIrreversible ==
    /\ ScenarioScored
    /\ \A k \in RuleBasedScenario : ScenarioDecision(k, "irreversible")

\* C17: the pull request of the scenario is normalized with confidence above
\* 0.4 and an explicit_decision indicator, and with no Gateway its Decision is
\* technical, with the "because" clause as rationale, and costly to reverse:
\* "migration" is looked for before "schema".
C17_ScenarioCostly ==
    /\ ScenarioScored
    /\ \A k \in RuleBasedScenario : ScenarioDecision(k, "costly")

\* the "Switch to PostgreSQL" pull request, extracted with no Gateway and stored
C17_Witness ==
    /\ providers = <<>>
    /\ \E k \in RuleBasedScenario :
          /\ outcomes[k].event = <<"norm_", "g1">>
          /\ outcomes[k].stored = "yes"
          /\ outcomes[k].decision.rationale = <<"of", "better", "JSON", "support">>
          /\ decisions[<<"decision_", <<"norm_", "g1">>>>].reversibility = "costly"

\* ------------------------------------------------------------------ properties of the extractor

DecisionTypes ==
    {"technical", "architectural", "process", "tool_choice", "approval", "implementation"}
Scopes == {"local", "component", "system", "organization"}
Reversibilities == {"reversible", "costly", "irreversible"}
DecisionConfidences == {"high", "medium", "low"}

Enumerated(decision) ==
    /\ decision.decision_type \in DecisionTypes
    /\ decision.scope \in Scopes
    /\ decision.reversibility \in Reversibilities
    /\ decision.decision_confidence \in DecisionConfidences

\* C18: every Decision the extractor returns, by whichever path and whatever the
\* Gateway answered, and every Decision in the table, has decision_type, scope,
\* reversibility and decision_confidence among the enumerated values.
C18_FieldsEnumerated ==
    /\ \A k \in 1..Len(outcomes) :
          outcomes[k].decision # NoDecision => Enumerated(outcomes[k].decision)
    /\ \A id \in DOMAIN decisions : Enumerated(decisions[id])

\* a number, brought into [0, 1]
Clamped(v) == IF v < 0 THEN 0 ELSE IF v > 10 THEN 10 ELSE v

InUnitInterval(v) == v # NaN /\ 0 <= v /\ v <= 10

\* the label of the answer, or the default where the answer has none
Defaulted(decision, f, key, default) ==
    decision[key] = IF Has(f, key) THEN f[key] ELSE default

\* C19: every Decision the extractor returns has a decision_statement and an
\* extraction_confidence between 0 and 1 (here 0 and 10 tenths). One built from the
\* Gateway's answer has the answer's extraction_confidence brought into [0, 1], and
\* technical / component / reversible / medium where the answer gives no label;
\* a rule-based one has min(event confidence + 0.1, 1). So has every stored one.
C19_StatementAndConfidence ==
    /\ (caller = "extractor" /\ pc = "store") =>
          /\ Has(pending, "decision_statement")
          /\ pending.decision_statement # <<>>
          /\ InUnitInterval(pending.extraction_confidence)
          /\ IF pending.id[1] = "decision_llm_"
             THEN LET f == jsonResult.value.fields
                  IN  /\ Has(f, "extraction_confidence") =>
                            pending.extraction_confidence = Clamped(f.extraction_confidence)
                      /\ Defaulted(pending, f, "decision_type", "technical")
                      /\ Defaulted(pending, f, "scope", "component")
                      /\ Defaulted(pending, f, "reversibility", "reversible")
                      /\ Defaulted(pending, f, "decision_confidence", "medium")
             ELSE pending.extraction_confidence
                     = Clamped(InHand.confidence_score + 1)
    /\ \A id \in DOMAIN decisions :
          /\ Has(decisions[id], "decision_statement")
          /\ decisions[id].decision_statement # <<>>
          /\ InUnitInterval(decisions[id].extraction_confidence)

\* ------------------------------------------------------------------ properties of the explainer

\* the words of a subject, without its signs
SubjectWords(componentName) ==
    {toLowerCase(componentName[k]) : k \in 1..Len(componentName)} \ Fts5Signs

\* no event of the repository holds the words of the subject anywhere, and no
\* decision of it holds one of them in its statement or rationale
NoEvidence(repository, componentName) ==
    /\ \A row \in events :
          row.repository = repository
             => \E w \in SubjectWords(componentName) : w \notin ftsContent(row)
    /\ \A id \in DOMAIN decisions :
          decisions[id].repository = repository
             => /\ \A k \in 1..Len(decisions[id].decision_statement) :
                      toLowerCase(decisions[id].decision_statement[k])
                         \notin SubjectWords(componentName)
                /\ \A k \in 1..Len(TextOf(decisions[id], "rationale")) :
                      toLowerCase(decisions[id].rationale[k])
                         \notin SubjectWords(componentName)

\* C20: an explain call for a subject with no matching events and no matching
\* decisions returns, with confidence_score 0, the gaps "no structured decisions"
\* and "no related discussions", data_freshness.level none and the fixed summary
\* of no recorded decisions, and makes no call of the Gateway, available or not.
C20_EmptyEvidence ==
    (/\ explanation.kind \in {"value", "error", "awaiting"}
     /\ NoEvidence(explanation.repository, explanation.component)) =>
        /\ explanation.kind = "value"
        /\ explanation.evidence.confidence_score.num = 0
        /\ explanation.evidence.total_events = 0
        /\ explanation.evidence.decision_count = 0
        /\ explanation.gaps = <<"No structured decisions extracted",
                                "No related discussions found">>
        /\ explanation.evidence.data_freshness.level = "none"
        /\ explanation.summary.text
              = <<"No recorded decisions or discussions found for this component.">>
        /\ explanation.summary.generated_by = "fallback"
        /\ explanation.completeJSON = 0

\* C21: whenever a related decision carries the number of a pull request that is
\* among the related events, the graph of the explanation holds an edge labelled
\* "made in" from the node of the decision to the node of the pull request; and
\* every related decision has an edge labelled "affects" to the node of the subject
HasEdge(graph, from, to, label) ==
    \E k \in 1..Len(graph.edges) :
        graph.edges[k] = [from |-> from, to |-> to, label |-> label]

HasNode(graph, id) == \E k \in 1..Len(graph.nodes) : graph.nodes[k].id = id

C21_MadeInEdge ==
    explanation.kind = "value" =>
        \A k \in 1..Len(explanation.decisions) :
            LET decision == explanation.decisions[k]
                decisionId == <<"decision", decision.id>>
            IN  /\ HasEdge(explanation.graph, decisionId,
                           <<"component", explanation.component>>, "affects")
                /\ (Has(decision, "related_pr")
                        /\ HasNode(explanation.graph, <<"pr", decision.related_pr>>))
                   => HasEdge(explanation.graph, decisionId,
                              <<"pr", decision.related_pr>>, "made in")

\* the summary of the template, as the evidence chooses it
TopRanked(found) ==
    CHOOSE d \in {found[k] : k \in 1..Len(found)} :
        \A k \in 1..Len(found) :
            \/ d.extraction_confidence > found[k].extraction_confidence
            \/ /\ d.extraction_confidence = found[k].extraction_confidence
               /\ d.timestamp >= found[k].timestamp

TemplateText(found, related) ==
    IF found = <<>> /\ related = <<>>
    THEN <<"No recorded decisions or discussions found for this component.">>
    ELSE IF found = <<>>
    THEN <<"Found", ToString(Len(related)),
           "related discussions but no structured decisions recorded.">>
    ELSE TopRanked(found).decision_statement
         \o (IF Has(TopRanked(found), "rationale")
             THEN <<"Rationale:">> \o TopRanked(found).rationale ELSE <<>>)

\* the Gateway has failed while explain awaited the summary
SummaryFailed ==
    /\ pc = "done"
    /\ caller = "explainer"
    /\ explanation.kind = "awaiting"
    /\ jsonResult.kind = "error"

\* C22: a failure of the Gateway during the summary never makes explain fail:
\* explain returns the summary of the template, chosen by the evidence (events
\* only: the count of discussions; otherwise the statement of the decision of
\* highest extraction confidence, the most recent on a tie, and its rationale
\* when it has one); the gaps are those of the evidence on either path
C22_SummaryFallback ==
    [][(pc = "done" /\ caller = "explainer" /\ explanation.kind = "awaiting") =>
          /\ explanation'.kind = "value"
          /\ explanation'.gaps =
                 (IF explanation.decisions = <<>>
                  THEN <<"No structured decisions extracted">> ELSE <<>>)
                 \o (IF explanation.events = <<>>
                     THEN <<"No related discussions found">> ELSE <<>>)
          /\ SummaryFailed =>
                 /\ explanation'.summary.generated_by = "fallback"
                 /\ explanation'.summary.text =
                        TemplateText(explanation.decisions, explanation.events)]_vars

C22_Witness ==
    /\ SummaryFailed
    /\ explanation.decisions # <<>>
    /\ Has(explanation.decisions[1], "rationale")
    /\ explanation.events # <<>>

\* the events explain has retrieved for its subject, most relevant first
Retrieved ==
    IF explanation.kind \in {"value", "awaiting"}
    THEN findRelatedEvents(explanation.repository, explanation.component).value
    ELSE <<>>

TitleNames(event, subject) == includes(lower(TextOf(event.data, "title")), lower(subject))

ContentNames(event, subject) ==
    \/ TitleNames(event, subject)
    \/ includes(lower(TextOf(event.data, "body")), lower(subject))
    \/ includes(lower(TextOf(event.data, "message")), lower(subject))

SumOfParts(event, subject) ==
    (IF TitleNames(event, subject) THEN 8 ELSE 0)
    + (IF ContentNames(event, subject) THEN 6 ELSE 0)
    + (IF event.type = "pull_request" THEN 2 ELSE 0)

\* deduplicated by id, every relevance above 0.1, sorted by descending relevance
Ranked(related) ==
    /\ \A k, j \in 1..Len(related) : related[k].id = related[j].id => k = j
    /\ \A k \in 1..Len(related) : related[k].relevance_score > 1
    /\ \A k, j \in 1..Len(related) :
           k < j => related[k].relevance_score >= related[j].relevance_score

\* C28 as stated: the relevance of an event is the sum of 0.8 (its title names the
\* subject), 0.6 (its content names it) and 0.2 (it is a pull request); the events
\* retrieved are deduplicated by id, all above 0.1 and sorted by descending
\* relevance, so that a pull request whose title names the subject ranks strictly
\* above another event whose title names it
C28_RelevanceIsTheSum ==
    /\ Ranked(Retrieved)
    /\ \A k \in 1..Len(Retrieved) :
           Retrieved[k].relevance_score = SumOfParts(Retrieved[k], explanation.component)
    /\ \A k, j \in 1..Len(Retrieved) :
           (/\ Retrieved[k].type = "pull_request"
            /\ Retrieved[j].type # "pull_request"
            /\ TitleNames(Retrieved[k], explanation.component)
            /\ TitleNames(Retrieved[j], explanation.component))
           => /\ Retrieved[k].relevance_score > Retrieved[j].relevance_score
              /\ k < j

\* C28, amended: the relevance is that sum capped at 1.0; the events retrieved are
\* deduplicated by id, all above 0.1 and sorted by descending relevance; every
\* event whose title names the subject scores exactly 1.0, pull request or not,
\* and events of equal relevance stay in the order of the search, newest first
C28_RelevanceIsCapped ==
    /\ Ranked(Retrieved)
    /\ \A k \in 1..Len(Retrieved) :
           /\ Retrieved[k].relevance_score
                 = IF SumOfParts(Retrieved[k], explanation.component) > 10
                   THEN 10 ELSE SumOfParts(Retrieved[k], explanation.component)
           /\ TitleNames(Retrieved[k], explanation.component)
                 => Retrieved[k].relevance_score = 10
    /\ \A k, j \in 1..Len(Retrieved) :
           (k < j /\ Retrieved[k].relevance_score = Retrieved[j].relevance_score)
           => Retrieved[k].timestamp >= Retrieved[j].timestamp

\* an issue and an older pull request, both naming the subject in their titles:
\* the issue comes first
C28_Witness ==
    /\ explanation.kind = "value"
    /\ \E k, j \in 1..Len(Retrieved) :
           /\ k < j
           /\ Retrieved[k].type = "issue"
           /\ Retrieved[j].type = "pull_request"
           /\ TitleNames(Retrieved[k], explanation.component)
           /\ TitleNames(Retrieved[j], explanation.component)
           /\ Retrieved[k].relevance_score = Retrieved[j].relevance_score

\* ------------------------------------------------------------------ properties of the event store

\* the record has all the columns that must not be null
Complete(event) ==
    {"timestamp", "type", "action", "source", "repository", "data"} \subseteq DOMAIN event

Deciding(rows) ==
    {k \in 1..Len(rows) : extractDecisionRuleBased(rows[k]) # NoDecision}

\* C24: without a Gateway, a run over normalized events that were extracted
\* before leaves the decision store as it was: storing again the Decision of an
\* event changes nothing; and what a run returns depends on its candidates alone
\* (extracted: those the rules make a Decision of; skipped: the others), so that
\* two runs over the same events return the same counts
C24_ReplayIsIdempotent ==
    [][(~isAvailable /\ caller = "extractor") =>
          /\ (pc = "store" /\ extracted' = extracted + 1
                 /\ pending.id \in DOMAIN decisions)
                => decisions' = decisions
          /\ (pc = "loop" /\ pc' = "done" /\ i > Len(candidates)
                 /\ \A k \in 1..Len(outcomes) : outcomes[k].stored # "threw")
                => /\ extracted = Cardinality(Deciding(candidates))
                   /\ skipped = Len(candidates) - extracted
                   /\ \A k \in Deciding(candidates) :
                          decisions[<<"decision_", candidates[k].id>>]
                             = extractDecisionRuleBased(candidates[k])]_vars

\* a second run without a Gateway has stored again the Decision of its first
\* candidate and is about to store again that of its second
C24_Witness ==
    /\ ~isAvailable
    /\ caller = "extractor"
    /\ pc = "store"
    /\ Len(outcomes) = 2
    /\ outcomes[1].stored = "yes"
    /\ pending.id \in DOMAIN decisions
    /\ decisions[pending.id] = pending

\* ------------------------------------------------------------------ properties of an aborted run

\* the run was stopped before it had gone through its candidates
Aborted ==
    /\ caller = "extractor"
    /\ pc = "done"
    /\ i <= Len(candidates)

\* C23: a run that is aborted after any number of candidates leaves every
\* Decision stored so far, by this run or by earlier ones, in the table and
\* unchanged: the abort undoes nothing
C23_AbortKeepsDecisions ==
    [][(pc # "done" /\ Aborted') =>
          /\ decisions' = decisions
          /\ \A k \in 1..Len(outcomes) :
                 outcomes[k].stored = "yes" =>
                    /\ outcomes[k].decision.id \in DOMAIN decisions'
                    /\ decisions'[outcomes[k].decision.id] = outcomes[k].decision]_vars

\* a run was aborted after it had stored a Decision, with the Decision of an
\* earlier run in the table and a candidate still to go
C23_Witness ==
    /\ Aborted
    /\ \E k \in 1..Len(outcomes) :
           /\ outcomes[k].stored = "yes"
           /\ outcomes[k].decision.id \in DOMAIN decisions
    /\ \E id \in DOMAIN decisions :
           \A k \in 1..Len(outcomes) : outcomes[k].decision.id # id

\* ------------------------------------------------------------------ properties of rule-based runs

\* the two runs: the one that goes on and the one that is suspended
Runs ==
    { [pc |-> pc, candidates |-> candidates, i |-> i, extracted |-> extracted,
       skipped |-> skipped, pending |-> pending, outcomes |-> outcomes],
      parked }

\* the candidates a run has processed, each with what came out
Processed ==
    UNION {{[event |-> r.candidates[k], decision |-> r.outcomes[k].decision] :
               k \in 1..Len(r.outcomes)} : r \in Runs}

\* the decisions one run makes of its candidates when it is alone
MadeOf(rows) == {extractDecisionRuleBased(row) : row \in rows} \ {NoDecision}

CandidatesOf(r) == {r.candidates[k] : k \in 1..Len(r.candidates)}

\* C26: two rule-based runs over the same repository, interleaved at every await,
\* share no counter or list: each run counts its own outcomes; and when both have
\* returned, the store holds exactly the Decisions one run makes of the
\* candidates, one per Decision id, each as that run would have written it, and
\* each run returns the counts of a run that is alone
C26_ConcurrentRuns ==
    /\ \A r \in Runs :
           /\ r.extracted = Cardinality({k \in 1..Len(r.outcomes) :
                                              r.outcomes[k].stored = "yes"})
           /\ r.skipped = Cardinality({k \in 1..Len(r.outcomes) :
                                            r.outcomes[k].stored = "no"})
           /\ \A k \in 1..Len(r.outcomes) :
                  r.outcomes[k].event = r.candidates[k].id
    /\ (pc = "done" /\ parked.pc = "done") =>
           /\ {decisions[id] : id \in DOMAIN decisions}
                 = MadeOf(CandidatesOf(parked) \cup {candidates[k] : k \in 1..Len(candidates)})
           /\ \A id \in DOMAIN decisions : decisions[id].id = id
           /\ \A r \in Runs :
                  /\ r.extracted = Cardinality(MadeOf(CandidatesOf(r)))
                  /\ r.extracted + r.skipped = Len(r.candidates)

\* both runs went over the same two candidates or more, and made a Decision
C26_Witness ==
    /\ pc = "done"
    /\ parked.pc = "done"
    /\ candidates = parked.candidates
    /\ Len(candidates) >= 2
    /\ extracted >= 1
    /\ parked.extracted = extracted

StrongIndicator(event) ==
    \E k \in 1..Len(event.decision_indicators) :
        event.decision_indicators[k].type
            \in {"explicit_decision", "approval_decision", "implementation_decision"}

\* C27: the rule-based path makes no Decision of an event that has no strong
\* indicator and a confidence below 0.6; an event of confidence 0.6 or more, or
\* with a strong indicator, passes the gate (a pull request or a commit that
\* passes it yields a Decision)
C27_Gate ==
    \A p \in Processed :
        /\ (~StrongIndicator(p.event) /\ p.event.confidence_score < 6)
              => p.decision = NoDecision
        /\ (/\ StrongIndicator(p.event) \/ p.event.confidence_score >= 6
            /\ p.event.event_type \in {"pull_request", "commit"})
              => p.decision # NoDecision

\* a commit of confidence 0.6 exactly and no strong indicator has yielded a
\* Decision, and an event below the gate none
C27_Witness ==
    /\ \E p \in Processed :
           /\ p.event.confidence_score = 6
           /\ ~StrongIndicator(p.event)
           /\ p.decision # NoDecision
    /\ \E p \in Processed :
           /\ p.event.confidence_score < 6
           /\ p.decision = NoDecision

\* C29: under rule-based extraction every pr_review that passed the gate because
\* the scorer matched "approved", in whatever letter case the review has it,
\* yields a Decision of type approval
C29_ApprovedAnyCase ==
    \A p \in Processed :
        (/\ p.event.event_type = "pr_review"
         /\ \E k \in 1..Len(p.event.decision_indicators) :
                /\ p.event.decision_indicators[k].type = "approval_decision"
                /\ \E e \in 1..Len(p.event.decision_indicators[k].examples) :
                       p.event.decision_indicators[k].examples[e] = <<"approved">>)
        => /\ p.decision # NoDecision
           /\ p.decision.decision_type = "approval"

FixedPhrases ==
    { <<"let's", "go", "with">>, <<"i", "think", "we", "should">>, <<"we", "should", "use">>,
      <<"i", "prefer">>, <<"better", "approach">>, <<"i", "suggest">>,
      <<"let's", "implement">>, <<"we", "need", "to">>, <<"i", "recommend">> }

\* C30: an issue or an event of an unrecognized type never yields a rule-based
\* Decision, whatever its indicators and confidence; a pr_review whose content
\* lacks "approved" yields none, and a pr_comment with none of the fixed phrases
\* yields none: only pr_review, pull_request, pr_comment and commit events do
C30_OnlyFourTypes ==
    \A p \in Processed :
        LET content == TextOf(p.event, "content")
        IN  /\ p.event.event_type \notin {"pr_review", "pull_request", "pr_comment", "commit"}
                  => p.decision = NoDecision
            /\ (p.event.event_type = "pr_review" /\ ~includes(content, <<"approved">>))
                  => p.decision = NoDecision
            /\ (/\ p.event.event_type = "pr_comment"
                /\ \A phrase \in FixedPhrases : ~includes(lower(content), phrase))
                  => p.decision = NoDecision

\* an issue with an explicit decision and a comment that passed the gate without
\* a phrase were processed, and neither yielded a Decision
C30_Witness ==
    /\ \E p \in Processed :
           /\ p.event.event_type = "issue"
           /\ StrongIndicator(p.event)
           /\ p.decision = NoDecision
    /\ \E p \in Processed :
           /\ p.event.event_type = "pr_comment"
           /\ p.event.confidence_score >= 6
           /\ p.decision = NoDecision

\* ------------------------------------------------------------------ properties of the scorer

\* the places of the text where pattern p matches
Occurrences(text, p) ==
    {s \in 1..Len(text) :
        \E a \in 1..Len(decisionPatterns[p].pattern) :
            PhraseAt(text, s, decisionPatterns[p].pattern[a])}

\* the sum, over the patterns from p on, of min(count * weight, 2 * weight)
RECURSIVE CappedSum(_, _)
CappedSum(text, p) ==
    IF p > Len(decisionPatterns) THEN 0
    ELSE LET count == Cardinality(Occurrences(text, p))
             weight == decisionPatterns[p].weight
         IN  (IF count * weight <= 2 * weight THEN count * weight ELSE 2 * weight)
             + CappedSum(text, p + 1)

\* the text without the words at the places of pattern p after its second
DropExtra(text, p) ==
    LET places == Occurrences(text, p)
        extra == {s \in places : Cardinality({t \in places : t < s}) >= 2}
    IN  SelectSeq([k \in 1..Len(text) |-> IF k \in extra THEN "" ELSE text[k]],
                  LAMBDA w : w # "")

\* C16: whatever the text, the confidence is between 0 and 1 (here 0 and 10
\* tenths) and is the sum over the patterns of min(count * weight, 2 * weight),
\* itself capped at 1; the indicators are the patterns that match, with their
\* counts; a text with more than two matches of a pattern scores no higher than
\* the same text with two of them; all of it is determined by the text.
C16_ScorerBound ==
    LET capped == CappedSum(scorerInput, 1)
        found == {p \in 1..Len(decisionPatterns) : Occurrences(scorerInput, p) # {}}
    IN  /\ 0 <= scorerOutput.confidence
        /\ scorerOutput.confidence <= 10
        /\ scorerOutput.confidence = IF capped <= 10 THEN capped ELSE 10
        /\ Len(scorerOutput.indicators) = Cardinality(found)
        /\ \A k \in 1..Len(scorerOutput.indicators) :
              \E p \in found :
                 /\ scorerOutput.indicators[k].type = decisionPatterns[p].type
                 /\ scorerOutput.indicators[k].count = Cardinality(Occurrences(scorerInput, p))
                 /\ Cardinality({q \in found : q < p}) = k - 1
        /\ \A p \in found :
              Cardinality(Occurrences(scorerInput, p)) > 2
                 => /\ Cardinality(Occurrences(DropExtra(scorerInput, p), p)) = 2
                    /\ scorerOutput.confidence
                          <= detectDecisionIndicators(DropExtra(scorerInput, p)).confidence

\* a text with three matches of one pattern, scored at twice the weight of the
\* pattern and below the cap of the total
C16_Witness ==
    \E p \in 1..Len(decisionPatterns) :
       /\ Cardinality(Occurrences(scorerInput, p)) = 3
       /\ scorerOutput.confidence = 2 * decisionPatterns[p].weight
       /\ scorerOutput.confidence < 10

====
